---------------------------- MODULE Spec2Model ----------------------------
(***************************************************************************)
(* Model of the MathFish standards-tagging tools (zcsabbagh/cs293-a3):     *)
(*   benchmark.py  standard_levels / map_level / evaluate                  *)
(*   irr.py        standard_levels / map_level / build_reliability_matrix  *)
(*   annotate.py   load_standards_hierarchy                                *)
(*                                                                         *)
(* A Python str is a sequence of one-character strings, so that split,     *)
(* join, slicing and comparison are computed, not assumed.                 *)
(***************************************************************************)
EXTENDS Integers, Sequences, FiniteSets, TLC

VARIABLES
    m_impl,      \* mapper run: which copy of the mapper is called
    m_code,      \* mapper run: the code string given
    m_codes,     \* mapper run: the collection of codes given
    m_trace,     \* mapper run: the levels applied so far, in order
    m_out,       \* mapper run: the code after the calls of m_trace
    m_set_out,   \* mapper run: the code set after the calls of m_trace
    m_store,     \* mapper run: the taxonomy store the codes are looked up in
    e_preds,     \* evaluate: argument preds, item id -> code set
    e_gold,      \* evaluate: argument gold, item id -> code set
    e_level,     \* evaluate: argument level
    e_pending,   \* evaluate: gold items the loop has not processed yet
    e_tp,        \* evaluate: local tp
    e_fp,        \* evaluate: local fp
    e_fn,        \* evaluate: local fn
    e_exact,     \* evaluate: local exact
    e_total,     \* evaluate: local total
    e_pc,        \* evaluate: "idle", "loop", "done" (returned) or "raised"
    e_metrics,   \* evaluate: the returned record
    x_annotations, \* build_reliability_matrix: annotator -> item id -> record
    x_shared_ids,  \* build_reliability_matrix: argument shared_ids, a list
    x_level,       \* build_reliability_matrix: argument level
    x_pc,          \* build_reliability_matrix: "idle", "call" or "done"
    x_items,       \* build_reliability_matrix: local items, the column list
    x_matrix,      \* build_reliability_matrix: the returned matrix
    h_lines,     \* load_standards_hierarchy: the entries of the file, in order
    h_entries,   \* load_standards_hierarchy: local entries, id -> entry
    h_pc,        \* load_standards_hierarchy: "idle", "call" or "done"
    h_hierarchy, \* load_standards_hierarchy: the returned hierarchy
    g_problems,  \* build_gold_labels: argument problems, pid -> problem
    g_pc,        \* build_gold_labels: "idle", "call" or "done"
    g_gold,      \* build_gold_labels: the returned dict, pid -> set of codes
    l_loader,    \* taxonomy load: the module whose loader runs
    l_lines,     \* taxonomy load: the lines of the file, in order
    l_line_num,  \* taxonomy load: the number of the next line to read
    l_standards, \* taxonomy load: the dict built so far, id -> entry
    l_warnings,  \* taxonomy load: the line numbers reported on stderr
    l_pc,        \* taxonomy load: "idle", "loop", "done" or "raised"
    l_error,     \* taxonomy load: the exception that left the loader
    c_preds0,    \* repeated evaluate: the value of preds before the first call
    c_gold0,     \* repeated evaluate: the value of gold before the first call
    c_order,     \* repeated evaluate: the items the running call has processed
    c_results,   \* repeated evaluate: level -> record an earlier call returned
    c_calls,     \* repeated evaluate: the number of calls started
    s_saved,     \* annotation server: server.saved_annotations, pid -> record
    s_file,      \* annotation server: the text of <name>_annotations.jsonl
    s_reply,     \* annotation server: the response to the latest POST
    s_posted,    \* annotation server: the bodies of the POSTs received, in order
    s_pc,        \* annotation server: "idle", "serving" or "stopped"
    s_loaded,    \* irr.load_annotations: the dict read from the file, and when
    s_done,      \* annotation server: done, the records main read back at start
    r_retries,   \* request_with_retries: argument retries
    r_base_sleep, \* request_with_retries: argument base_sleep, in half seconds
    r_i,         \* request_with_retries: the loop variable i
    r_pc,        \* request_with_retries: "idle", "call", "sleep", "raise",
                 \* "returned" or "raised"
    r_last_err,  \* request_with_retries: last_err
    r_result,    \* request_with_retries: the value returned or exception raised
    r_outcomes,  \* request_with_retries: the outcomes of the calls of fn, in order
    r_sleeps     \* request_with_retries: the arguments of time.sleep, in order

mapperVars == <<m_impl, m_code, m_codes, m_trace, m_out, m_set_out, m_store>>
evalVars == <<e_preds, e_gold, e_level, e_pending, e_tp, e_fp, e_fn, e_exact,
              e_total, e_pc, e_metrics>>
matrixVars == <<x_annotations, x_shared_ids, x_level, x_pc, x_items, x_matrix>>
hierVars == <<h_lines, h_entries, h_pc, h_hierarchy>>
goldVars == <<g_problems, g_pc, g_gold>>
loadVars == <<l_loader, l_lines, l_line_num, l_standards, l_warnings, l_pc, l_error>>
callVars == <<c_preds0, c_gold0, c_order, c_results, c_calls>>
serverVars == <<s_saved, s_file, s_reply, s_posted, s_pc, s_loaded, s_done>>
retryVars == <<r_retries, r_base_sleep, r_i, r_pc, r_last_err, r_result, r_outcomes,
              r_sleeps>>

vars == <<mapperVars, evalVars, matrixVars, hierVars, goldVars,
         loadVars,
         callVars,
         serverVars,
         retryVars>>

\* a component that a specification does not run stays in this state
IdleMapper ==
    /\ m_impl = "none"
    /\ m_code = <<>>
    /\ m_codes = {}
    /\ m_trace = <<>>
    /\ m_out = <<>>
    /\ m_set_out = {}
    /\ m_store = <<>>

IdleEval ==
    /\ e_preds = <<>>
    /\ e_gold = <<>>
    /\ e_level = "none"
    /\ e_pending = {}
    /\ e_tp = 0
    /\ e_fp = 0
    /\ e_fn = 0
    /\ e_exact = 0
    /\ e_total = 0
    /\ e_pc = "idle"
    /\ e_metrics = <<>>

IdleMatrix ==
    /\ x_annotations = <<>>
    /\ x_shared_ids = <<>>
    /\ x_level = "none"
    /\ x_pc = "idle"
    /\ x_items = <<>>
    /\ x_matrix = <<>>

IdleHierarchy ==
    /\ h_lines = <<>>
    /\ h_entries = <<>>
    /\ h_pc = "idle"
    /\ h_hierarchy = <<>>

IdleGold ==
    /\ g_problems = <<>>
    /\ g_pc = "idle"
    /\ g_gold = <<>>

IdleLoad ==
    /\ l_loader = "none"
    /\ l_lines = <<>>
    /\ l_line_num = 0
    /\ l_standards = <<>>
    /\ l_warnings = <<>>
    /\ l_pc = "idle"
    /\ l_error = "none"

IdleCalls ==
    /\ c_preds0 = <<>>
    /\ c_gold0 = <<>>
    /\ c_order = <<>>
    /\ c_results = <<>>
    /\ c_calls = 0

IdleServer ==
    /\ s_saved = <<>>
    /\ s_file = <<>>
    /\ s_reply = [status |-> "none", saved |-> 0]
    /\ s_posted = <<>>
    /\ s_pc = "idle"
    /\ s_loaded = [done |-> FALSE, at |-> 0, annotations |-> <<>>]
    /\ s_done = 0

IdleRetry ==
    /\ r_retries = 0
    /\ r_base_sleep = 0
    /\ r_i = 0
    /\ r_pc = "idle"
    /\ r_last_err = "None"
    /\ r_result = "None"
    /\ r_outcomes = <<>>
    /\ r_sleeps = <<>>

---------------------------------------------------------------------------
(* Bounds *)

\* longest arbitrary code string enumerated
MaxCodeLen == 6

\* longest chain of mapper calls applied to one input
MaxCompose == 2

\* item ids 1..MaxItems may occur in preds and in gold
MaxItems == 2

\* at most MaxAnnotators annotators are given to build_reliability_matrix
MaxAnnotators == 2

\* at most MaxLines lines are in the standards file
MaxLines == 4

---------------------------------------------------------------------------
(* Strings *)

Min(a, b) == IF a <= b THEN a ELSE b

\* all sequences over S of length 0..n
RECURSIVE SeqsUpTo(_, _)
SeqsUpTo(S, n) ==
    IF n = 0 THEN {<<>>}
    ELSE LET shorter == SeqsUpTo(S, n - 1)
         IN  shorter \cup {Append(s, c) : s \in shorter, c \in S}

\* str.split(sep) for a one-character sep: every sep separates, empty
\* segments are kept, "" gives one empty segment
RECURSIVE SplitAcc(_, _, _, _)
SplitAcc(s, sep, i, cur) ==
    IF i > Len(s) THEN <<cur>>
    ELSE IF s[i] = sep THEN <<cur>> \o SplitAcc(s, sep, i + 1, <<>>)
    ELSE SplitAcc(s, sep, i + 1, Append(cur, s[i]))

\* code.split(".")
split(code) == SplitAcc(code, ".", 1, <<>>)

\* mutant of join: the segments are joined with no separator
RECURSIVE join_NoSeparator(_)
join_NoSeparator(parts) ==
    IF Len(parts) = 0 THEN <<>>
    ELSE parts[1] \o join_NoSeparator(Tail(parts))

\* ".".join(parts)
RECURSIVE join(_)
join(parts) ==
    IF Len(parts) = 0 THEN <<>>
    ELSE IF Len(parts) = 1 THEN parts[1]
    ELSE parts[1] \o <<".">> \o join(Tail(parts))

\* the slice parts[:n]
Take(parts, n) == SubSeq(parts, 1, Min(n, Len(parts)))

---------------------------------------------------------------------------
(* Example codes *)

c_4 == <<"4">>
c_4NF == <<"4", ".", "N", "F">>
c_4NFA == <<"4", ".", "N", "F", ".", "A">>
c_4NFB == <<"4", ".", "N", "F", ".", "B">>
c_4NFA1 == <<"4", ".", "N", "F", ".", "A", ".", "1">>
c_4NFB3 == <<"4", ".", "N", "F", ".", "B", ".", "3">>
c_4NFB3a == <<"4", ".", "N", "F", ".", "B", ".", "3", "a">>
c_4OA == <<"4", ".", "O", "A">>
c_KCC == <<"K", ".", "C", "C">>
c_XY == <<"X", "-", "Y">>
c_NRN == <<"N", "-", "R", "N">>
c_9ZZ == <<"9", ".", "Z", "Z">>
c_HS == <<"H", "S">>
c_A == <<"A">>
c_AAPR == <<"A", "-", "A", "P", "R">>
c_AAPRA == <<"A", "-", "A", "P", "R", ".", "A">>
c_AAPRA1 == <<"A", "-", "A", "P", "R", ".", "A", ".", "1">>

ExampleCodes == {c_4NF, c_4NFB, c_4NFA1, c_4NFB3, c_4NFB3a, c_AAPR, c_AAPRA, c_AAPRA1}

\* characters of the arbitrary strings: the separator and one other
CodeChars == {".", "a"}

InputCodes == SeqsUpTo(CodeChars, MaxCodeLen) \cup ExampleCodes

Levels == {"standard", "cluster", "domain", "other"}

---------------------------------------------------------------------------
(* TaxonomyEntry store: code -> entry, one entry per line of standards.jsonl *)

NoCode == <<>>

Entry(id, level, parent, children, cluster_type) ==
    [id |-> id, level |-> level, description |-> <<"d", ":">> \o id,
     parent |-> parent, children |-> children, cluster_type |-> cluster_type]

e_4 == Entry(c_4, "Grade", NoCode, <<c_4NF>>, "")
e_4NF == Entry(c_4NF, "Domain", c_4, <<c_4NFA, c_4NFB>>, "")
e_4NFA == Entry(c_4NFA, "Cluster", c_4NF, <<c_4NFA1>>, "supporting cluster")
e_4NFB == Entry(c_4NFB, "Cluster", c_4NF, <<c_4NFB3>>, "major cluster")
e_4NFA1 == Entry(c_4NFA1, "Standard", c_4NFA, <<>>, "")
e_4NFB3 == Entry(c_4NFB3, "Standard", c_4NFB, <<c_4NFB3a>>, "")
e_4NFB3a == Entry(c_4NFB3a, "Sub-standard", c_4NFB3, <<>>, "")
e_HS == Entry(c_HS, "Grade", NoCode, <<c_A>>, "")
e_A == Entry(c_A, "HS Category", c_HS, <<c_AAPR>>, "")
e_AAPR == Entry(c_AAPR, "Domain", c_A, <<c_AAPRA>>, "")
e_AAPRA == Entry(c_AAPRA, "Cluster", c_AAPR, <<c_AAPRA1>>, "major cluster")
e_AAPRA1 == Entry(c_AAPRA1, "Standard", c_AAPRA, <<>>, "")

\* entries[item["id"]] = item for every item
StoreOf(items) == [id \in {e.id : e \in items} |-> CHOOSE e \in items : e.id = id]

K8Entries == {e_4, e_4NF, e_4NFA, e_4NFB, e_4NFA1, e_4NFB3, e_4NFB3a}
HSEntries == {e_HS, e_A, e_AAPR, e_AAPRA, e_AAPRA1}

\* stores in which every Standard and Sub-standard reaches its Cluster and
\* its Domain through parent links
WellFormedStores ==
    {StoreOf(K8Entries), StoreOf(HSEntries), StoreOf(K8Entries \cup HSEntries)}

\* the ancestor of id (or id itself) that has the given level, by parent links
RECURSIVE AncestorAt(_, _, _)
AncestorAt(store, id, level) ==
    IF id \notin DOMAIN store THEN NoCode
    ELSE IF store[id].level = level THEN id
    ELSE AncestorAt(store, store[id].parent, level)

---------------------------------------------------------------------------
(* CodeLevelMapper, benchmark.py *)

\* mutant of standard_levels: the standard is returned as the cluster
standard_levels_StandardIsCluster(code) ==
    LET parts == split(code)
        domain == IF Len(parts) >= 2 THEN join(Take(parts, 2)) ELSE code
        cluster == IF Len(parts) >= 3 THEN join(Take(parts, 3)) ELSE domain
    IN  [domain |-> domain, cluster |-> cluster, standard |-> cluster]

\* mutant of standard_levels: the domain is the first segment alone
standard_levels_DomainOneSegment(code) ==
    LET parts == split(code)
        domain == IF Len(parts) >= 2 THEN join(Take(parts, 1)) ELSE code
        cluster == IF Len(parts) >= 3 THEN join(Take(parts, 3)) ELSE domain
    IN  [domain |-> domain, cluster |-> cluster, standard |-> code]

standard_levels(code) ==
    LET parts == split(code)
        domain == IF Len(parts) >= 2 THEN join(Take(parts, 2)) ELSE code
        cluster == IF Len(parts) >= 3 THEN join(Take(parts, 3)) ELSE domain
    IN  [domain |-> domain, cluster |-> cluster, standard |-> code]

\* the body of map_level's loop: the ancestor of one code at a level
\* mutant of mapLevel: the domain of a code is the code itself
mapLevel_DomainIsCode(code, level) ==
    LET l == standard_levels(code)
    IN  IF level = "domain" THEN l.standard
        ELSE IF level = "cluster" THEN l.cluster
        ELSE l.standard

mapLevel(code, level) ==
    LET l == standard_levels(code)
    IN  IF level = "domain" THEN l.domain
        ELSE IF level = "cluster" THEN l.cluster
        ELSE l.standard

\* mutant of map_level: the codes are returned as given, at every level
map_level_IgnoresLevel(codes, level) == codes

\* mutant of map_level: the given codes stay in the result beside their ancestors
map_level_KeepsCodes(codes, level) ==
    codes \cup {mapLevel(code, level) : code \in codes}

map_level(codes, level) == {mapLevel(code, level) : code \in codes}

(* CodeLevelMapper, irr.py *)

irr_standard_levels(code) ==
    LET parts == split(code)
        domain == IF Len(parts) >= 2 THEN join(Take(parts, 2)) ELSE code
        cluster == IF Len(parts) >= 3 THEN join(Take(parts, 3)) ELSE domain
    IN  [domain |-> domain, cluster |-> cluster, standard |-> code]

\* mutant of irr_mapLevel: a level string that names no level gives the domain
irr_mapLevel_OtherIsDomain(code, level) ==
    LET l == irr_standard_levels(code)
    IN  IF level = "cluster" THEN l.cluster
        ELSE IF level = "standard" THEN l.standard
        ELSE l.domain

irr_mapLevel(code, level) ==
    LET l == irr_standard_levels(code)
    IN  IF level = "domain" THEN l.domain
        ELSE IF level = "cluster" THEN l.cluster
        ELSE l.standard

irr_map_level(codes, level) == {irr_mapLevel(code, level) : code \in codes}

---------------------------------------------------------------------------
(* Mapper runs: one input, a chain of at most MaxCompose calls *)

InitMapper ==
    /\ m_impl \in {"benchmark", "irr"}
    /\ m_code \in InputCodes
    /\ m_codes \in {{}, {m_code}, {m_code, c_4NFB3}, {m_code, c_4NFA1}}
    /\ m_trace = <<>>
    /\ m_out = m_code
    /\ m_set_out = m_codes
    /\ m_store \in WellFormedStores
    /\ IdleEval
    /\ IdleMatrix
    /\ IdleHierarchy
    /\ IdleGold
    /\ IdleLoad
    /\ IdleCalls
    /\ IdleServer
    /\ IdleRetry

MapBenchmark(level) ==
    /\ m_impl = "benchmark"
    /\ Len(m_trace) < MaxCompose
    /\ m_out' = mapLevel(m_out, level)
    /\ m_set_out' = map_level(m_set_out, level)
    /\ m_trace' = Append(m_trace, level)
    /\ UNCHANGED <<m_impl, m_code, m_codes, m_store>>
    /\ UNCHANGED <<evalVars, matrixVars, hierVars, goldVars, loadVars, callVars, serverVars, retryVars>>

MapIrr(level) ==
    /\ m_impl = "irr"
    /\ Len(m_trace) < MaxCompose
    /\ m_out' = irr_mapLevel(m_out, level)
    /\ m_set_out' = irr_map_level(m_set_out, level)
    /\ m_trace' = Append(m_trace, level)
    /\ UNCHANGED <<m_impl, m_code, m_codes, m_store>>
    /\ UNCHANGED <<evalVars, matrixVars, hierVars, goldVars, loadVars, callVars, serverVars, retryVars>>

NextMapper ==
    \/ \E level \in Levels : MapBenchmark(level)
    \/ \E level \in Levels : MapIrr(level)

SpecMapper == InitMapper /\ [][NextMapper]_vars

---------------------------------------------------------------------------
(* LabelSetEvaluator, benchmark.py evaluate *)

Items == 1..MaxItems

\* the label sets an item may carry in gold and in preds: empty, a single
\* code (the two sides can agree, differ in the standard only, or differ in
\* the cluster) and two codes of one cluster
GoldLabelSets == {{}, {c_4NFB3a}, {c_4NFA1}, {c_4NFB3, c_4NFB3a}}
PredLabelSets == {{}, {c_4NFB3}, {c_4NFA1}, {c_4NFB3, c_4NFB3a}}

EvalLevels == {"standard", "cluster", "domain"}

\* every dict from some of the ids to the label sets
LabelDicts(ids, sets) == UNION {[d -> sets] : d \in SUBSET ids}

\* every gold dict: its items are numbered in their insertion order
GoldDicts == UNION {[1..k -> GoldLabelSets] : k \in 0..MaxItems}

RECURSIVE GCD(_, _)
GCD(a, b) == IF b = 0 THEN a ELSE GCD(b, a % b)

\* a float result as the exact ratio num/den in lowest terms
Frac(n, d) == LET g == GCD(n, d) IN [num |-> n \div g, den |-> d \div g]
Zero == [num |-> 0, den |-> 1]
One == [num |-> 1, den |-> 1]

\* the outcome of a division whose divisor is 0
ZeroDivisionError == [num |-> 0, den |-> 0]

\* Python's n / d
PyDiv(n, d) == IF d = 0 THEN ZeroDivisionError ELSE Frac(n, d)

\* mutant of ratio: the division is not guarded
ratio_Unguarded(n, d) == PyDiv(n, d)

\* n / d if d else 0.0
ratio(n, d) == IF d # 0 THEN PyDiv(n, d) ELSE Zero

\* (2 * precision * recall / (precision + recall)) if (precision + recall) else 0.0
f1_score(precision, recall) ==
    LET sum_num == precision.num * recall.den + recall.num * precision.den
    IN  IF sum_num # 0
        THEN PyDiv(2 * precision.num * recall.num, sum_num)
        ELSE Zero

\* preds.get(pid, set())
PredLabels(preds, pid) == IF pid \in DOMAIN preds THEN preds[pid] ELSE {}

\* mutant of ItemCounts: every predicted code counts as a false positive
ItemCounts_FpCountsAll(pred_level, gold_level) ==
    [tp |-> Cardinality(pred_level \cap gold_level),
     fp |-> Cardinality(pred_level),
     fn |-> Cardinality(gold_level \ pred_level),
     exact |-> IF pred_level = gold_level THEN 1 ELSE 0]

\* mutant of ItemCounts: exact is counted when pred_level <= gold_level
ItemCounts_ExactIsSubset(pred_level, gold_level) ==
    [tp |-> Cardinality(pred_level \cap gold_level),
     fp |-> Cardinality(pred_level \ gold_level),
     fn |-> Cardinality(gold_level \ pred_level),
     exact |-> IF pred_level \subseteq gold_level THEN 1 ELSE 0]

\* mutant of ItemCounts: two empty sets are not an exact match
ItemCounts_ExactNeedsLabels(pred_level, gold_level) ==
    [tp |-> Cardinality(pred_level \cap gold_level),
     fp |-> Cardinality(pred_level \ gold_level),
     fn |-> Cardinality(gold_level \ pred_level),
     exact |-> IF pred_level = gold_level /\ pred_level # {} THEN 1 ELSE 0]

\* what one item adds to tp, fp, fn and exact
ItemCounts(pred_level, gold_level) ==
    [tp |-> Cardinality(pred_level \cap gold_level),
     fp |-> Cardinality(pred_level \ gold_level),
     fn |-> Cardinality(gold_level \ pred_level),
     exact |-> IF pred_level = gold_level THEN 1 ELSE 0]

InitEval ==
    /\ e_gold \in GoldDicts
    /\ e_preds \in LabelDicts(Items, PredLabelSets)
    /\ e_level \in EvalLevels
    /\ e_pending = DOMAIN e_gold
    /\ e_tp = 0
    /\ e_fp = 0
    /\ e_fn = 0
    /\ e_exact = 0
    /\ e_total = 0
    /\ e_pc = "loop"
    /\ e_metrics = <<>>
    /\ IdleMapper
    /\ IdleMatrix
    /\ IdleHierarchy
    /\ IdleGold
    /\ IdleLoad
    /\ IdleCalls
    /\ IdleServer
    /\ IdleRetry

\* mutant of EvalStep: a gold item with no entry in preds is skipped
EvalStep_SkipsMissing(pid) ==
    /\ e_pc = "loop"
    /\ pid \in e_pending
    /\ \A other \in e_pending : pid <= other
    /\ LET pred_level == map_level(PredLabels(e_preds, pid), e_level)
           gold_level == map_level(e_gold[pid], e_level)
           c == ItemCounts(pred_level, gold_level)
           n == IF pid \in DOMAIN e_preds THEN 1 ELSE 0
       IN  /\ e_total' = e_total + n
           /\ e_tp' = e_tp + n * c.tp
           /\ e_fp' = e_fp + n * c.fp
           /\ e_fn' = e_fn + n * c.fn
           /\ e_exact' = e_exact + n * c.exact
    /\ e_pending' = e_pending \ {pid}
    /\ UNCHANGED <<e_preds, e_gold, e_level, e_pc, e_metrics>>
    /\ UNCHANGED <<mapperVars, matrixVars, hierVars, goldVars, loadVars, callVars, serverVars, retryVars>>

\* mutant of EvalStep: the counts of the item replace the running counts
EvalStep_Overwrites(pid) ==
    /\ e_pc = "loop"
    /\ pid \in e_pending
    /\ \A other \in e_pending : pid <= other
    /\ LET pred_level == map_level(PredLabels(e_preds, pid), e_level)
           gold_level == map_level(e_gold[pid], e_level)
           c == ItemCounts(pred_level, gold_level)
       IN  /\ e_total' = e_total + 1
           /\ e_tp' = c.tp
           /\ e_fp' = c.fp
           /\ e_fn' = c.fn
           /\ e_exact' = e_exact + c.exact
    /\ e_pending' = e_pending \ {pid}
    /\ UNCHANGED <<e_preds, e_gold, e_level, e_pc, e_metrics>>
    /\ UNCHANGED <<mapperVars, matrixVars, hierVars, goldVars, loadVars, callVars, serverVars, retryVars>>

\* one iteration of the loop over gold.items(): a dict yields its items in
\* insertion order, the order of their numbers
EvalStep(pid) ==
    /\ e_pc = "loop"
    /\ pid \in e_pending
    /\ \A other \in e_pending : pid <= other
    /\ LET pred_level == map_level(PredLabels(e_preds, pid), e_level)
           gold_level == map_level(e_gold[pid], e_level)
           c == ItemCounts(pred_level, gold_level)
       IN  /\ e_total' = e_total + 1
           /\ e_tp' = e_tp + c.tp
           /\ e_fp' = e_fp + c.fp
           /\ e_fn' = e_fn + c.fn
           /\ e_exact' = e_exact + c.exact
    /\ e_pending' = e_pending \ {pid}
    /\ UNCHANGED <<e_preds, e_gold, e_level, e_pc, e_metrics>>
    /\ UNCHANGED <<mapperVars, matrixVars, hierVars, goldVars, loadVars, callVars, serverVars, retryVars>>

\* the statements after the loop: the four ratios and the return
EvalFinish ==
    /\ e_pc = "loop"
    /\ e_pending = {}
    /\ LET precision == ratio(e_tp, e_tp + e_fp)
           recall == ratio(e_tp, e_tp + e_fn)
           f1 == IF ZeroDivisionError \in {precision, recall}
                 THEN ZeroDivisionError
                 ELSE f1_score(precision, recall)
           exact_match == ratio(e_exact, e_total)
       IN  IF ZeroDivisionError \in {precision, recall, f1, exact_match}
           THEN /\ e_pc' = "raised"
                /\ e_metrics' = <<>>
           ELSE /\ e_pc' = "done"
                /\ e_metrics' = [precision |-> precision, recall |-> recall,
                                 f1 |-> f1, exact_match |-> exact_match,
                                 total |-> e_total]
    /\ UNCHANGED <<e_preds, e_gold, e_level, e_pending, e_tp, e_fp, e_fn,
                   e_exact, e_total>>
    /\ UNCHANGED <<mapperVars, matrixVars, hierVars, goldVars, loadVars, callVars, serverVars, retryVars>>

NextEval ==
    \/ \E pid \in Items : EvalStep(pid)
    \/ EvalFinish

SpecEval == InitEval /\ [][NextEval]_vars

---------------------------------------------------------------------------
(* ReliabilityMatrixBuilder, irr.py build_reliability_matrix *)

\* the code points of the characters that occur in codes
CodePoint ==
    ("-" :> 45) @@ ("." :> 46) @@ ("1" :> 49) @@ ("3" :> 51) @@ ("4" :> 52)
    @@ ("A" :> 65) @@ ("B" :> 66) @@ ("F" :> 70) @@ ("H" :> 72) @@ ("K" :> 75)
    @@ ("N" :> 78) @@ ("O" :> 79) @@ ("P" :> 80) @@ ("R" :> 82) @@ ("S" :> 83) @@ ("X" :> 88)
    @@ ("Y" :> 89) @@ ("a" :> 97)

\* s < t for two Python strs: by code point, a proper prefix first
RECURSIVE StrLess(_, _)
StrLess(s, t) ==
    IF Len(t) = 0 THEN FALSE
    ELSE IF Len(s) = 0 THEN TRUE
    ELSE IF s[1] # t[1] THEN CodePoint[s[1]] < CodePoint[t[1]]
    ELSE StrLess(Tail(s), Tail(t))

\* mutant of sorted: the greatest str comes first
RECURSIVE sorted_Descending(_)
sorted_Descending(S) ==
    IF S = {} THEN <<>>
    ELSE LET greatest == CHOOSE s \in S : \A t \in S \ {s} : StrLess(t, s)
         IN  <<greatest>> \o sorted_Descending(S \ {greatest})

\* sorted(S) for a set of strs
RECURSIVE sorted(_)
sorted(S) ==
    IF S = {} THEN <<>>
    ELSE LET least == CHOOSE s \in S : \A t \in S \ {s} : StrLess(s, t)
         IN  <<least>> \o sorted(S \ {least})

\* the item ids annotation records are keyed by
XItemIds == {1, 2}

\* the lists shared_ids may be
SharedLists == {<<>>, <<1>>, <<2>>, <<1, 2>>, <<2, 1>>}

Record(skipped, standards) == [skipped |-> skipped, standards |-> standards]

\* the records an annotator may hold for item 1 and for item 2: skipped with
\* a code no other record lists, and unskipped with no code, one code or
\* two codes of one cluster
XRecords(pid) ==
    IF pid = 1
    THEN {Record(TRUE, {c_4NFA1}), Record(FALSE, {}), Record(FALSE, {c_4NFB3})}
    ELSE {Record(TRUE, {c_4NFA1}), Record(FALSE, {c_4NFB3a}),
          Record(FALSE, {c_4NFB3, c_4NFB3a})}

\* one annotator's dict: item id -> record, for some of the item ids
AnnotatorDicts ==
    UNION {{f \in [d -> UNION {XRecords(pid) : pid \in d}] :
               \A pid \in d : f[pid] \in XRecords(pid)} : d \in SUBSET XItemIds}

\* annotations.values() in insertion order
AnnotationLists == SeqsUpTo(AnnotatorDicts, MaxAnnotators)

Range(q) == {q[i] : i \in DOMAIN q}

\* not a or a.get("skipped"), a = ann.get(pid)
Unusable(ann, pid) == pid \notin DOMAIN ann \/ ann[pid].skipped

\* mutant of all_standards: the codes of a skipped record are collected too
all_standards_IncludesSkipped(annotations, shared_ids, level) ==
    UNION {irr_map_level(ann[pid].standards, level) :
             <<ann, pid>> \in {z \in Range(annotations) \X Range(shared_ids) :
                                 z[2] \in DOMAIN z[1]}}

\* the first loop: the union of the mapped codes of the usable records of
\* the shared items
all_standards(annotations, shared_ids, level) ==
    UNION {irr_map_level(ann[pid].standards, level) :
             <<ann, pid>> \in {z \in Range(annotations) \X Range(shared_ids) :
                                 ~Unusable(z[1], z[2])}}

\* [(pid, code) for pid in shared_ids for code in sorted(all_standards)]
matrix_items(shared_ids, codes) ==
    LET m == Len(codes)
    IN  [k \in 1..(Len(shared_ids) * m) |->
            <<shared_ids[((k - 1) \div m) + 1], codes[((k - 1) % m) + 1]>>]

\* mutant of matrix_cell: a skipped record is read like any other record
matrix_cell_IgnoresSkipped(ann, pid, code, level) ==
    IF pid \notin DOMAIN ann THEN "nan"
    ELSE IF code \in irr_map_level(ann[pid].standards, level) THEN "1.0"
    ELSE "0.0"

\* mutant of matrix_cell: an unskipped record that lists no standard is read
\* as a missing record
matrix_cell_EmptyIsMissing(ann, pid, code, level) ==
    IF Unusable(ann, pid) \/ ann[pid].standards = {} THEN "nan"
    ELSE IF code \in irr_map_level(ann[pid].standards, level) THEN "1.0"
    ELSE "0.0"

\* the body of the inner loop: the cell of one annotator in one column
matrix_cell(ann, pid, code, level) ==
    IF Unusable(ann, pid) THEN "nan"
    ELSE IF code \in irr_map_level(ann[pid].standards, level) THEN "1.0"
    ELSE "0.0"

InitMatrix ==
    /\ x_annotations \in AnnotationLists
    /\ x_shared_ids \in SharedLists
    /\ x_level \in EvalLevels
    /\ x_pc = "call"
    /\ x_items = <<>>
    /\ x_matrix = <<>>
    /\ IdleMapper
    /\ IdleEval
    /\ IdleHierarchy
    /\ IdleGold
    /\ IdleLoad
    /\ IdleCalls
    /\ IdleServer
    /\ IdleRetry

\* mutant of BuildMatrix: the columns range over every annotated item, not
\* over the shared items
BuildMatrix_AllItems ==
    /\ x_pc = "call"
    /\ LET ids == SelectSeq(<<1, 2>>,
                       LAMBDA p : \E r \in 1..Len(x_annotations) :
                                     p \in DOMAIN x_annotations[r])
           items == matrix_items(ids,
                        sorted(all_standards(x_annotations, ids, x_level)))
       IN  /\ x_items' = items
           /\ x_matrix' =
                  [r \in 1..Len(x_annotations) |->
                     [k \in 1..Len(items) |->
                        matrix_cell(x_annotations[r], items[k][1], items[k][2],
                                    x_level)]]
    /\ x_pc' = "done"
    /\ UNCHANGED <<x_annotations, x_shared_ids, x_level>>
    /\ UNCHANGED <<mapperVars, evalVars, hierVars, goldVars, loadVars, callVars, serverVars, retryVars>>

\* the call build_reliability_matrix(annotations, shared_ids, level)
BuildMatrix ==
    /\ x_pc = "call"
    /\ LET items == matrix_items(x_shared_ids,
                        sorted(all_standards(x_annotations, x_shared_ids, x_level)))
       IN  /\ x_items' = items
           /\ x_matrix' =
                  [r \in 1..Len(x_annotations) |->
                     [k \in 1..Len(items) |->
                        matrix_cell(x_annotations[r], items[k][1], items[k][2],
                                    x_level)]]
    /\ x_pc' = "done"
    /\ UNCHANGED <<x_annotations, x_shared_ids, x_level>>
    /\ UNCHANGED <<mapperVars, evalVars, hierVars, goldVars, loadVars, callVars, serverVars, retryVars>>

NextMatrix == BuildMatrix

SpecMatrix == InitMatrix /\ [][NextMatrix]_vars

---------------------------------------------------------------------------
(* HierarchyBuilder, annotate.py load_standards_hierarchy *)

\* a Python dict is modelled as the function from its keys to its values
EmptyDict == <<>>

\* dict.get(key, default)
Get(dict, key, default) == IF key \in DOMAIN dict THEN dict[key] ELSE default

hs_cat_names ==
    (<<"A">> :> <<"A", "l", "g", "e", "b", "r", "a">>)
    @@ (<<"F">> :> <<"F", "u", "n", "c", "t", "i", "o", "n", "s">>)
    @@ (<<"G">> :> <<"G", "e", "o", "m", "e", "t", "r", "y">>)
    @@ (<<"N">> :> <<"N", "u", "m", "b", "e", "r", " ", "&", " ", "Q", "u", "a", "n", "t", "i", "t", "y">>)
    @@ (<<"S">> :> <<"S", "t", "a", "t", "i", "s", "t", "i", "c", "s", " ", "&", " ", "P", "r", "o", "b", "a", "b", "i", "l", "i", "t", "y">>)

grade_names ==
    (<<"K">> :> <<"K", "i", "n", "d", "e", "r", "g", "a", "r", "t", "e", "n">>)
    @@ (<<"1">> :> <<"G", "r", "a", "d", "e", " ", "1">>)
    @@ (<<"2">> :> <<"G", "r", "a", "d", "e", " ", "2">>)
    @@ (<<"3">> :> <<"G", "r", "a", "d", "e", " ", "3">>)
    @@ (<<"4">> :> <<"G", "r", "a", "d", "e", " ", "4">>)
    @@ (<<"5">> :> <<"G", "r", "a", "d", "e", " ", "5">>)
    @@ (<<"6">> :> <<"G", "r", "a", "d", "e", " ", "6">>)
    @@ (<<"7">> :> <<"G", "r", "a", "d", "e", " ", "7">>)
    @@ (<<"8">> :> <<"G", "r", "a", "d", "e", " ", "8">>)

hs_order == (<<"N">> :> 0) @@ (<<"A">> :> 1) @@ (<<"F">> :> 2) @@ (<<"G">> :> 3) @@ (<<"S">> :> 4)

DigitValue == ("0" :> 0) @@ ("1" :> 1) @@ ("2" :> 2) @@ ("3" :> 3) @@ ("4" :> 4) @@ ("5" :> 5) @@ ("6" :> 6) @@ ("7" :> 7) @@ ("8" :> 8) @@ ("9" :> 9)

\* int(s) for a str of decimal digits
RECURSIVE int(_)
int(s) ==
    IF Len(s) = 1 THEN DigitValue[s[1]]
    ELSE 10 * int(SubSeq(s, 1, Len(s) - 1)) + DigitValue[s[Len(s)]]

\* the first loop: entries[item["id"]] = item for every line, a later line
\* with the same id replaces the earlier one
RECURSIVE read_entries(_)
read_entries(lines) ==
    IF Len(lines) = 0 THEN EmptyDict
    ELSE LET item == lines[Len(lines)]
             before == read_entries(SubSeq(lines, 1, Len(lines) - 1))
         IN  [id \in DOMAIN before \cup {item.id} |->
                 IF id = item.id THEN item ELSE before[id]]

\* the ids of the dict in insertion order: the order of their first lines
RECURSIVE entry_order(_)
entry_order(lines) ==
    IF Len(lines) = 0 THEN <<>>
    ELSE LET before == entry_order(SubSeq(lines, 1, Len(lines) - 1))
             id == lines[Len(lines)].id
         IN  IF id \in Range(before) THEN before ELSE Append(before, id)

\* mutant of grade_of: only a digit is taken for a grade, so K goes the
\* High-School way
grade_of_DigitsOnly(eid) ==
    LET first == split(eid)[1]
    IN  IF first \in DOMAIN grade_names /\ first # <<"K">>
        THEN [key |-> first,
              name |-> Get(grade_names, first, <<"G", "r", "a", "d", "e", " ">> \o first),
              sort_key |-> int(first)]
        ELSE LET hs_prefix == SplitAcc(eid, "-", 1, <<>>)[1]
             IN  [key |-> <<"H", "S", "-">> \o hs_prefix,
                  name |-> <<"H", "S", ":", " ">> \o Get(hs_cat_names, hs_prefix, hs_prefix),
                  sort_key |-> 100 + Get(hs_order, hs_prefix, 9)]

\* mutant of grade_of: the High-School subjects are ordered by their letter
grade_of_AlphabeticalOrder(eid) ==
    LET first == split(eid)[1]
    IN  IF first \in DOMAIN grade_names \/ first = <<"K">>
        THEN [key |-> first,
              name |-> Get(grade_names, first, <<"G", "r", "a", "d", "e", " ">> \o first),
              sort_key |-> IF first = <<"K">> THEN 0 ELSE int(first)]
        ELSE LET hs_prefix == SplitAcc(eid, "-", 1, <<>>)[1]
                 by_letter == (<<"A">> :> 0) @@ (<<"F">> :> 1) @@ (<<"G">> :> 2)
                              @@ (<<"N">> :> 3) @@ (<<"S">> :> 4)
             IN  [key |-> <<"H", "S", "-">> \o hs_prefix,
                  name |-> <<"H", "S", ":", " ">> \o Get(hs_cat_names, hs_prefix, hs_prefix),
                  sort_key |-> 100 + Get(by_letter, hs_prefix, 9)]

\* mutant of grade_of: an unrecognised prefix is itself the key and the name
grade_of_RawPrefix(eid) ==
    LET first == split(eid)[1]
    IN  IF first \in DOMAIN grade_names \/ first = <<"K">>
        THEN [key |-> first,
              name |-> Get(grade_names, first, <<"G", "r", "a", "d", "e", " ">> \o first),
              sort_key |-> IF first = <<"K">> THEN 0 ELSE int(first)]
        ELSE LET hs_prefix == SplitAcc(eid, "-", 1, <<>>)[1]
             IN  IF hs_prefix \in DOMAIN hs_cat_names
                 THEN [key |-> <<"H", "S", "-">> \o hs_prefix,
                       name |-> <<"H", "S", ":", " ">> \o hs_cat_names[hs_prefix],
                       sort_key |-> 100 + Get(hs_order, hs_prefix, 9)]
                 ELSE [key |-> hs_prefix, name |-> hs_prefix, sort_key |-> 109]

\* grade_key, grade_name and sort_key of a Domain id
grade_of(eid) ==
    LET first == split(eid)[1]
    IN  IF first \in DOMAIN grade_names \/ first = <<"K">>
        THEN [key |-> first,
              name |-> Get(grade_names, first, <<"G", "r", "a", "d", "e", " ">> \o first),
              sort_key |-> IF first = <<"K">> THEN 0 ELSE int(first)]
        ELSE LET hs_prefix == SplitAcc(eid, "-", 1, <<>>)[1]
             IN  [key |-> <<"H", "S", "-">> \o hs_prefix,
                  name |-> <<"H", "S", ":", " ">> \o Get(hs_cat_names, hs_prefix, hs_prefix),
                  sort_key |-> 100 + Get(hs_order, hs_prefix, 9)]

\* the children of an entry that are in the store, each once
\* mutant of Present: the children of an entry are the entries whose parent
\* pointer names it
Present_ByParent(entries, entry) ==
    {c \in DOMAIN entries : entries[c].parent = entry.id}

Present(entries, entry) == {c \in Range(entry.children) : c \in DOMAIN entries}

sub_data(entries, sub_id) ==
    [id |-> sub_id, description |-> entries[sub_id].description]

std_data(entries, std_id) ==
    [id |-> std_id,
     description |-> entries[std_id].description,
     sub_standards |-> [sub_id \in Present(entries, entries[std_id]) |->
                           sub_data(entries, sub_id)]]

cluster_data(entries, cluster_id) ==
    [id |-> cluster_id,
     description |-> entries[cluster_id].description,
     cluster_type |-> entries[cluster_id].cluster_type,
     standards |-> [std_id \in Present(entries, entries[cluster_id]) |->
                       std_data(entries, std_id)]]

domain_data(entries, eid) ==
    [id |-> eid,
     description |-> entries[eid].description,
     clusters |-> [cluster_id \in Present(entries, entries[eid]) |->
                      cluster_data(entries, cluster_id)]]

\* one iteration of the loop over entries.items()
add_entry(entries, hierarchy, eid) ==
    IF entries[eid].level # "Domain" THEN hierarchy
    ELSE LET g == grade_of(eid)
             bucket == IF g.key \in DOMAIN hierarchy
                       THEN hierarchy[g.key]
                       ELSE [name |-> g.name, sort_key |-> g.sort_key,
                             domains |-> EmptyDict]
             domains == [d \in DOMAIN bucket.domains \cup {eid} |->
                            IF d = eid THEN domain_data(entries, eid)
                            ELSE bucket.domains[d]]
         IN  [k \in DOMAIN hierarchy \cup {g.key} |->
                 IF k = g.key THEN [bucket EXCEPT !.domains = domains]
                 ELSE hierarchy[k]]

\* the loop over entries.items(), in insertion order
RECURSIVE build_hierarchy(_, _)
build_hierarchy(entries, order) ==
    IF Len(order) = 0 THEN EmptyDict
    ELSE add_entry(entries,
                   build_hierarchy(entries, SubSeq(order, 1, Len(order) - 1)),
                   order[Len(order)])

\* the lines a standards file may hold
h_4NF == Entry(c_4NF, "Domain", c_4, <<c_4NFB>>, "")
h_4NF_two == Entry(c_4NF, "Domain", c_4, <<c_4NFA, c_4NFB>>, "")
h_4OA == Entry(c_4OA, "Domain", c_4, <<>>, "")
h_KCC == Entry(c_KCC, "Domain", <<"K">>, <<>>, "")
h_XY == Entry(c_XY, "Domain", NoCode, <<>>, "")
h_NRN == Entry(c_NRN, "Domain", <<"N">>, <<>>, "")
h_9ZZ == Entry(c_9ZZ, "Domain", NoCode, <<>>, "")

\* a cluster whose parent link disagrees with the children list naming it
h_AAPRA == Entry(c_AAPRA, "Cluster", c_4NF, <<>>, "major cluster")

FileLines ==
    {h_4NF, h_4NF_two, e_4NFB, e_4NFB3, e_4NFB3a, h_4OA, h_KCC, e_AAPR,
     h_AAPRA, h_XY, h_NRN, h_9ZZ}

\* the files: at most max_lines of the lines, each once, in any order
Files(max_lines) ==
    {f \in SeqsUpTo(FileLines, max_lines) :
        \A i, j \in 1..Len(f) : i # j => f[i] # f[j]}

InitHierarchy ==
    /\ h_lines \in Files(MaxLines)
    /\ h_entries = EmptyDict
    /\ h_pc = "call"
    /\ h_hierarchy = EmptyDict
    /\ IdleMapper
    /\ IdleEval
    /\ IdleMatrix
    /\ IdleGold
    /\ IdleLoad
    /\ IdleCalls
    /\ IdleServer
    /\ IdleRetry

\* the call load_standards_hierarchy(path)
LoadHierarchy ==
    /\ h_pc = "call"
    /\ h_entries' = read_entries(h_lines)
    /\ h_hierarchy' = build_hierarchy(read_entries(h_lines), entry_order(h_lines))
    /\ h_pc' = "done"
    /\ UNCHANGED h_lines
    /\ UNCHANGED <<mapperVars, evalVars, matrixVars, goldVars, loadVars, callVars, serverVars, retryVars>>

NextHierarchy == LoadHierarchy

SpecHierarchy == InitHierarchy /\ [][NextHierarchy]_vars

---------------------------------------------------------------------------
(* GoldLabels, benchmark.py build_gold_labels *)

MaxPairs == 2

\* mutant of PUBLISHER_RELATIONS: only the Addressing relation counts
PUBLISHER_RELATIONS_AddressingOnly == {"Addressing"}

PUBLISHER_RELATIONS == {"Addressing", "Alignment"}

\* the relations a problem file may carry
Relations == {"Addressing", "Alignment", "Building On"}

\* a [relation, code] pair of a problem's "standards" list
RelationPairs == Relations \X {c_4NFB3, c_4NFA1}

\* a problem: a dict whose "standards" key may be missing
Problems ==
    {[id |-> "p"]}
    \cup {[id |-> "p", standards |-> l] : l \in SeqsUpTo(RelationPairs, MaxPairs)}

GoldIds == {1, 2}

ProblemDicts(ids) == UNION {[D -> Problems] : D \in SUBSET ids}

\* p.get("standards", [])
standards_of(p) == IF "standards" \in DOMAIN p THEN p.standards ELSE <<>>

\* the inner loop over the pairs from position i on, labels being the set so far
RECURSIVE add_labels(_, _, _)
add_labels(pairs, i, labels) ==
    IF i > Len(pairs) THEN labels
    ELSE LET rel == pairs[i][1]
             code == pairs[i][2]
         IN  add_labels(pairs, i + 1,
                        IF rel \in PUBLISHER_RELATIONS THEN labels \cup {code}
                        ELSE labels)

InitGold ==
    /\ g_problems \in ProblemDicts(GoldIds)
    /\ g_pc = "call"
    /\ g_gold = <<>>
    /\ IdleMapper
    /\ IdleEval
    /\ IdleMatrix
    /\ IdleHierarchy
    /\ IdleLoad
    /\ IdleCalls
    /\ IdleServer
    /\ IdleRetry

\* the call build_gold_labels(problems)
BuildGoldLabels ==
    /\ g_pc = "call"
    /\ g_gold' = [pid \in DOMAIN g_problems |->
                     add_labels(standards_of(g_problems[pid]), 1, {})]
    /\ g_pc' = "done"
    /\ UNCHANGED g_problems
    /\ UNCHANGED <<mapperVars, evalVars, matrixVars, hierVars, loadVars, callVars, serverVars, retryVars>>

NextGold == BuildGoldLabels

SpecGold == InitGold /\ [][NextGold]_vars

----------------------------------------------------------------------------
(* Taxonomy loaders: annotation_helper.py load_standards, annotate.py
   load_standards_hierarchy (its reading loop), llm_benchmark.py load_standards *)

Loaders == {"annotation_helper", "annotate", "llm_benchmark"}

\* a line of the file: blank, text that is not JSON, or a JSON object
blank_line == [text |-> "blank"]
malformed_line == [text |-> "garbage"]
object_line(obj) == [text |-> "object", obj |-> obj]

\* a JSON object that lacks the "id" field
no_id == [level |-> "Domain", description |-> <<"d">>]

LoadLines ==
    {blank_line, malformed_line, object_line(no_id), object_line(e_4NF),
     object_line(e_4NFB)}

LoadFiles == SeqsUpTo(LoadLines, MaxLines)

\* json.loads(line): the object, or the exception it raises
json_loads(line) ==
    IF line.text = "object" THEN [ok |-> TRUE, obj |-> line.obj]
    ELSE [ok |-> FALSE, raises |-> "JSONDecodeError"]

\* entry["id"]: the id, or KeyError
id_of(obj) ==
    IF "id" \in DOMAIN obj THEN [ok |-> TRUE, id |-> obj.id]
    ELSE [ok |-> FALSE, raises |-> "KeyError"]

\* dict[key] = value
Put(dict, key, value) ==
    [k \in DOMAIN dict \cup {key} |-> IF k = key THEN value ELSE dict[k]]

\* json.loads(line) followed by standards[entry["id"]] = entry
store_line(standards, line) ==
    LET parsed == json_loads(line)
    IN  IF ~parsed.ok THEN [ok |-> FALSE, raises |-> parsed.raises]
        ELSE LET key == id_of(parsed.obj)
             IN  IF ~key.ok THEN [ok |-> FALSE, raises |-> key.raises]
                 ELSE [ok |-> TRUE,
                       standards |-> Put(standards, key.id, parsed.obj)]

InitLoad ==
    /\ l_loader \in Loaders
    /\ l_lines \in LoadFiles
    /\ l_line_num = 1
    /\ l_standards = <<>>
    /\ l_warnings = <<>>
    /\ l_pc = "loop"
    /\ l_error = "none"
    /\ IdleMapper
    /\ IdleEval
    /\ IdleMatrix
    /\ IdleHierarchy
    /\ IdleGold
    /\ IdleCalls
    /\ IdleServer
    /\ IdleRetry

\* annotation_helper.load_standards, one turn of the loop
HelperLoadLine ==
    /\ l_loader = "annotation_helper"
    /\ l_pc = "loop"
    /\ l_line_num <= Len(l_lines)
    /\ LET line == l_lines[l_line_num]
           r == store_line(l_standards, line)
       IN  IF line.text = "blank"
           THEN UNCHANGED <<l_standards, l_warnings>>
           ELSE IF r.ok
           THEN l_standards' = r.standards /\ UNCHANGED l_warnings
           ELSE l_warnings' = Append(l_warnings, l_line_num)
                /\ UNCHANGED l_standards
    /\ l_line_num' = l_line_num + 1
    /\ UNCHANGED <<l_loader, l_lines, l_pc, l_error>>
    /\ UNCHANGED <<mapperVars, evalVars, matrixVars, hierVars, goldVars, callVars, serverVars, retryVars>>

\* annotate.load_standards_hierarchy, one turn of the reading loop
HierarchyLoadLine ==
    /\ l_loader = "annotate"
    /\ l_pc = "loop"
    /\ l_line_num <= Len(l_lines)
    /\ LET r == store_line(l_standards, l_lines[l_line_num])
       IN  IF r.ok
           THEN /\ l_standards' = r.standards
                /\ l_line_num' = l_line_num + 1
                /\ UNCHANGED <<l_pc, l_error>>
           ELSE /\ l_pc' = "raised"
                /\ l_error' = r.raises
                /\ UNCHANGED <<l_standards, l_line_num>>
    /\ UNCHANGED <<l_loader, l_lines, l_warnings>>
    /\ UNCHANGED <<mapperVars, evalVars, matrixVars, hierVars, goldVars, callVars, serverVars, retryVars>>

\* llm_benchmark.load_standards, one turn of the loop
LlmLoadLine ==
    /\ l_loader = "llm_benchmark"
    /\ l_pc = "loop"
    /\ l_line_num <= Len(l_lines)
    /\ LET line == l_lines[l_line_num]
           r == store_line(l_standards, line)
       IN  IF line.text = "blank"
           THEN /\ l_line_num' = l_line_num + 1
                /\ UNCHANGED <<l_standards, l_pc, l_error>>
           ELSE IF r.ok
           THEN /\ l_standards' = r.standards
                /\ l_line_num' = l_line_num + 1
                /\ UNCHANGED <<l_pc, l_error>>
           ELSE /\ l_pc' = "raised"
                /\ l_error' = r.raises
                /\ UNCHANGED <<l_standards, l_line_num>>
    /\ UNCHANGED <<l_loader, l_lines, l_warnings>>
    /\ UNCHANGED <<mapperVars, evalVars, matrixVars, hierVars, goldVars, callVars, serverVars, retryVars>>

\* the end of the file: the loader returns its dict
LoadReturn ==
    /\ l_pc = "loop"
    /\ l_line_num > Len(l_lines)
    /\ l_pc' = "done"
    /\ UNCHANGED <<l_loader, l_lines, l_line_num, l_standards, l_warnings, l_error>>
    /\ UNCHANGED <<mapperVars, evalVars, matrixVars, hierVars, goldVars, callVars, serverVars, retryVars>>

NextLoad == HelperLoadLine \/ HierarchyLoadLine \/ LlmLoadLine \/ LoadReturn

SpecLoad == InitLoad /\ [][NextLoad]_vars

----------------------------------------------------------------------------
(* Repeated calls of evaluate on the same arguments, benchmark.py evaluate *)

MaxCalls == 3

\* the label sets of the arguments of the repeated calls
CallGoldSets == {{c_4NFB3a}}
CallPredSets == {{c_4NFB3a}, {c_4NFB3}, {c_4NFA1}}

InitCalls ==
    /\ e_gold \in LabelDicts(Items, CallGoldSets)
    /\ e_preds \in LabelDicts(Items, CallPredSets)
    /\ e_level \in EvalLevels
    /\ e_pending = DOMAIN e_gold
    /\ e_tp = 0
    /\ e_fp = 0
    /\ e_fn = 0
    /\ e_exact = 0
    /\ e_total = 0
    /\ e_pc = "loop"
    /\ e_metrics = <<>>
    /\ c_preds0 = e_preds
    /\ c_gold0 = e_gold
    /\ c_order = <<>>
    /\ c_results = <<>>
    /\ c_calls = 1
    /\ IdleMapper
    /\ IdleMatrix
    /\ IdleHierarchy
    /\ IdleGold
    /\ IdleLoad
    /\ IdleServer
    /\ IdleRetry

\* one iteration of the loop over gold.items(), for a gold dict whose items
\* were inserted in any order
CallStep(pid) ==
    /\ e_pc = "loop"
    /\ pid \in e_pending
    /\ LET pred_level == map_level(PredLabels(e_preds, pid), e_level)
           gold_level == map_level(e_gold[pid], e_level)
           c == ItemCounts(pred_level, gold_level)
       IN  /\ e_total' = e_total + 1
           /\ e_tp' = e_tp + c.tp
           /\ e_fp' = e_fp + c.fp
           /\ e_fn' = e_fn + c.fn
           /\ e_exact' = e_exact + c.exact
    /\ e_pending' = e_pending \ {pid}
    /\ c_order' = Append(c_order, pid)
    /\ UNCHANGED <<e_preds, e_gold, e_level, e_pc, e_metrics>>
    /\ UNCHANGED <<c_preds0, c_gold0, c_results, c_calls>>
    /\ UNCHANGED <<mapperVars, matrixVars, hierVars, goldVars, loadVars, serverVars, retryVars>>

\* mutant of CallAgain: the counters of the call before are carried over
CallAgain_KeepsCounts(level) ==
    /\ e_pc = "done"
    /\ c_calls < MaxCalls
    /\ c_calls' = c_calls + 1
    /\ c_results' = [l \in DOMAIN c_results \cup {e_level} |->
                        IF l = e_level THEN e_metrics
                        ELSE c_results[l]]
    /\ c_order' = <<>>
    /\ e_level' = level
    /\ e_pending' = DOMAIN e_gold
    /\ e_pc' = "loop"
    /\ e_metrics' = <<>>
    /\ UNCHANGED <<e_preds, e_gold, e_tp, e_fp, e_fn, e_exact, e_total>>
    /\ UNCHANGED <<c_preds0, c_gold0>>
    /\ UNCHANGED <<mapperVars, matrixVars, hierVars, goldVars, loadVars, serverVars, retryVars>>

\* the caller keeps the returned record and calls evaluate again with the
\* same two dicts: the locals start afresh
CallAgain(level) ==
    /\ e_pc = "done"
    /\ c_calls < MaxCalls
    /\ c_calls' = c_calls + 1
    /\ c_results' = [l \in DOMAIN c_results \cup {e_level} |->
                        IF l = e_level THEN e_metrics
                        ELSE c_results[l]]
    /\ c_order' = <<>>
    /\ e_level' = level
    /\ e_pending' = DOMAIN e_gold
    /\ e_tp' = 0
    /\ e_fp' = 0
    /\ e_fn' = 0
    /\ e_exact' = 0
    /\ e_total' = 0
    /\ e_pc' = "loop"
    /\ e_metrics' = <<>>
    /\ UNCHANGED <<e_preds, e_gold>>
    /\ UNCHANGED <<c_preds0, c_gold0>>
    /\ UNCHANGED <<mapperVars, matrixVars, hierVars, goldVars, loadVars, serverVars, retryVars>>

NextCalls ==
    \/ \E pid \in Items : CallStep(pid)
    \/ EvalFinish
    \/ \E level \in EvalLevels : CallAgain(level)

SpecCalls == InitCalls /\ [][NextCalls]_vars

----------------------------------------------------------------------------
(* Annotation server, annotate.py do_POST and main; irr.py load_annotations *)

MaxPosts == 3

annotator_name == "zane"

\* request bodies: first posts, a post that sets skipped, one that clears it
\* and changes the standards, and a body without "standards"
Bodies ==
    {[problem_id |-> "p1", standards |-> <<"4.NF.B.3">>],
     [problem_id |-> "p1", standards |-> <<>>, skipped |-> TRUE],
     [problem_id |-> "p1", standards |-> <<"4.NF.A.1", "4.NF.B.3">>,
      notes |-> "n", skipped |-> FALSE],
     [problem_id |-> "p2", standards |-> <<"4.NF.A.1">>],
     [problem_id |-> "p2", standards |-> <<>>, notes |-> "n", skipped |-> TRUE],
     [problem_id |-> "p2", notes |-> "n"]}

\* body.get(key, default)
get(body, key, default) == IF key \in DOMAIN body THEN body[key] ELSE default

\* json.dumps of an annotation record, as the tokens of the text in the
\* order of the keys of the record
json_dumps(a) ==
    <<"{", "problem_id", a.problem_id, "annotator", a.annotator, "standards", "[">>
    \o a.standards
    \o <<"]", "notes", a.notes, "skipped", IF a.skipped THEN "true" ELSE "false",
         "}">>

\* the position of the first token tok of a text, 0 when there is none
IndexOf(text, tok) ==
    IF \E i \in 1..Len(text) : text[i] = tok
    THEN CHOOSE i \in 1..Len(text) :
            /\ text[i] = tok
            /\ \A j \in 1..(i - 1) : text[j] # tok
    ELSE 0

\* json.loads of one object as json_dumps writes it; anything else, two
\* objects in one text included, raises JSONDecodeError
loads_object(text) ==
    LET close == IndexOf(text, "]")
        n == Len(text)
    IN  IF /\ close >= 8
           /\ n = close + 5
           /\ text[1] = "{"
           /\ text[2] = "problem_id"
           /\ text[4] = "annotator"
           /\ text[6] = "standards"
           /\ text[7] = "["
           /\ text[close + 1] = "notes"
           /\ text[close + 3] = "skipped"
           /\ text[close + 4] \in {"true", "false"}
           /\ text[n] = "}"
        THEN [ok |-> TRUE,
              value |-> [problem_id |-> text[3], annotator |-> text[5],
                         standards |-> SubSeq(text, 8, close - 1),
                         notes |-> text[close + 2],
                         skipped |-> (text[close + 4] = "true")]]
        ELSE [ok |-> FALSE, value |-> <<>>]

\* the lines of a text, without their line ends
RECURSIVE splitlines(_)
splitlines(text) ==
    LET nl == IndexOf(text, "\n")
    IN  IF text = <<>> THEN <<>>
        ELSE IF nl = 0 THEN <<text>>
        ELSE <<SubSeq(text, 1, nl - 1)>> \o splitlines(SubSeq(text, nl + 1, Len(text)))

\* saved[a["problem_id"]] = a for the non-blank lines, in order; the first
\* line json.loads rejects ends the run
RECURSIVE replay_lines(_, _)
replay_lines(lines, saved) ==
    IF lines = <<>> THEN [ok |-> TRUE, saved |-> saved]
    ELSE IF Head(lines) = <<>> THEN replay_lines(Tail(lines), saved)
    ELSE LET a == loads_object(Head(lines))
         IN  IF a.ok
             THEN replay_lines(Tail(lines),
                               Put(saved, a.value.problem_id, a.value))
             ELSE [ok |-> FALSE, saved |-> <<>>]

\* main: saved = {} and the loop over the lines of the annotations file
main_replay(file) == replay_lines(splitlines(file), <<>>)

\* str.strip of the file content: the line ends at both ends go
RECURSIVE strip(_)
strip(text) ==
    IF text = <<>> THEN text
    ELSE IF Head(text) = "\n" THEN strip(Tail(text))
    ELSE IF text[Len(text)] = "\n" THEN strip(SubSeq(text, 1, Len(text) - 1))
    ELSE text

\* the objects of a JSON array text, each up to its closing brace
RECURSIVE array_items(_)
array_items(text) ==
    LET close == IndexOf(text, "}")
    IN  IF close = 0 THEN <<>>
        ELSE <<SubSeq(text, IndexOf(text, "{"), close)>>
             \o array_items(SubSeq(text, close + 1, Len(text)))

\* irr.load_annotations for one path: annotations[annotator]
load_annotations(file) ==
    LET content == strip(file)
    IN  IF content = <<>> THEN [ok |-> TRUE, saved |-> <<>>]
        ELSE IF Head(content) = "["
        THEN replay_lines(array_items(content), <<>>)
        ELSE replay_lines(splitlines(content), <<>>)

InitServer ==
    /\ s_saved = <<>>
    /\ s_file = <<>>
    /\ s_reply = [status |-> "none", saved |-> 0]
    /\ s_posted = <<>>
    /\ s_pc = "serving"
    /\ s_loaded = [done |-> FALSE, at |-> 0, annotations |-> <<>>]
    /\ s_done = 0
    /\ IdleMapper
    /\ IdleEval
    /\ IdleMatrix
    /\ IdleHierarchy
    /\ IdleGold
    /\ IdleLoad
    /\ IdleCalls
    /\ IdleRetry

\* mutant of do_POST: the line is written without its line end
do_POST_NoLineEnd(body) ==
    /\ s_pc = "serving"
    /\ Len(s_posted) < MaxPosts
    /\ s_posted' = Append(s_posted, body)
    /\ IF "problem_id" \in DOMAIN body /\ "standards" \in DOMAIN body
       THEN LET annotation == [problem_id |-> body.problem_id,
                               annotator |-> annotator_name,
                               standards |-> body.standards,
                               notes |-> get(body, "notes", ""),
                               skipped |-> get(body, "skipped", FALSE)]
                saved == Put(s_saved, body.problem_id, annotation)
            IN  /\ s_saved' = saved
                /\ s_file' = s_file \o json_dumps(annotation)
                /\ s_reply' = [status |-> "200",
                               saved |-> Cardinality(DOMAIN saved)]
       ELSE /\ s_reply' = [status |-> "KeyError", saved |-> 0]
            /\ UNCHANGED <<s_saved, s_file>>
    /\ UNCHANGED <<s_pc, s_loaded, s_done>>
    /\ UNCHANGED <<mapperVars, evalVars, matrixVars, hierVars, goldVars, loadVars, callVars, retryVars>>

\* POST /api/annotate: the record goes into saved_annotations and onto the
\* end of the file; a body without a key the handler reads raises KeyError
\* before anything is stored
do_POST(body) ==
    /\ s_pc = "serving"
    /\ Len(s_posted) < MaxPosts
    /\ s_posted' = Append(s_posted, body)
    /\ IF "problem_id" \in DOMAIN body /\ "standards" \in DOMAIN body
       THEN LET annotation == [problem_id |-> body.problem_id,
                               annotator |-> annotator_name,
                               standards |-> body.standards,
                               notes |-> get(body, "notes", ""),
                               skipped |-> get(body, "skipped", FALSE)]
                saved == Put(s_saved, body.problem_id, annotation)
            IN  /\ s_saved' = saved
                /\ s_file' = s_file \o json_dumps(annotation) \o <<"\n">>
                /\ s_reply' = [status |-> "200",
                               saved |-> Cardinality(DOMAIN saved)]
       ELSE /\ s_reply' = [status |-> "KeyError", saved |-> 0]
            /\ UNCHANGED <<s_saved, s_file>>
    /\ UNCHANGED <<s_pc, s_loaded, s_done>>
    /\ UNCHANGED <<mapperVars, evalVars, matrixVars, hierVars, goldVars, loadVars, callVars, retryVars>>

\* Ctrl+C: serve_forever ends and the process with it
Stop ==
    /\ s_pc = "serving"
    /\ s_pc' = "stopped"
    /\ UNCHANGED <<s_saved, s_file, s_reply, s_posted, s_loaded, s_done>>
    /\ UNCHANGED <<mapperVars, evalVars, matrixVars, hierVars, goldVars, loadVars, callVars, retryVars>>

\* the server is started again: saved_annotations is what main reads back
Restart ==
    /\ s_pc = "stopped"
    /\ LET r == main_replay(s_file)
       IN  IF r.ok
           THEN /\ s_saved' = r.saved
                /\ s_done' = Cardinality(DOMAIN r.saved)
                /\ s_pc' = "serving"
           ELSE /\ s_saved' = <<>>
                /\ s_done' = 0
                /\ s_pc' = "raised"
    /\ UNCHANGED <<s_file, s_reply, s_posted, s_loaded>>
    /\ UNCHANGED <<mapperVars, evalVars, matrixVars, hierVars, goldVars, loadVars, callVars, retryVars>>

\* irr.py reads the file of the annotator
LoadAnnotations ==
    /\ s_pc \in {"serving", "stopped"}
    /\ LET r == load_annotations(s_file)
       IN  s_loaded' = [done |-> r.ok, at |-> Len(s_posted),
                        annotations |-> r.saved]
    /\ UNCHANGED <<s_saved, s_file, s_reply, s_posted, s_pc, s_done>>
    /\ UNCHANGED <<mapperVars, evalVars, matrixVars, hierVars, goldVars, loadVars, callVars, retryVars>>

NextServer ==
    \/ \E body \in Bodies : do_POST(body)
    \/ Stop
    \/ Restart
    \/ LoadAnnotations

SpecServer == InitServer /\ [][NextServer]_vars

----------------------------------------------------------------------------
(* request_with_retries, llm_benchmark.py *)

MaxRetries == 3

\* what a call of fn does: it returns a raw answer or raises an Exception
FnValues == {"raw1", "raw2"}
FnErrors == {"E1", "E2"}

\* base_sleep in half seconds: the default 1.5 and one other value
BaseSleeps == {3, 2}

InitRetry ==
    /\ r_retries \in 1..MaxRetries
    /\ r_base_sleep \in BaseSleeps
    /\ r_i = 0
    /\ r_pc = "call"
    /\ r_last_err = "None"
    /\ r_result = "None"
    /\ r_outcomes = <<>>
    /\ r_sleeps = <<>>
    /\ IdleMapper
    /\ IdleEval
    /\ IdleMatrix
    /\ IdleHierarchy
    /\ IdleGold
    /\ IdleLoad
    /\ IdleCalls
    /\ IdleServer

\* try: return fn() / except Exception as e: last_err = e
CallFn(outcome) ==
    /\ r_pc = "call"
    /\ r_outcomes' = Append(r_outcomes, outcome)
    /\ IF outcome \in FnValues
       THEN /\ r_result' = outcome
            /\ r_pc' = "returned"
            /\ UNCHANGED r_last_err
       ELSE /\ r_last_err' = outcome
            /\ r_pc' = "sleep"
            /\ UNCHANGED r_result
    /\ UNCHANGED <<r_retries, r_base_sleep, r_i, r_sleeps>>
    /\ UNCHANGED <<mapperVars, evalVars, matrixVars, hierVars, goldVars, loadVars, callVars, serverVars>>

\* mutant of Sleep: no sleep after the failure of the last call
Sleep_NotAfterLast ==
    /\ r_pc = "sleep"
    /\ IF r_i + 1 < r_retries
       THEN /\ r_sleeps' = Append(r_sleeps, r_base_sleep * (2 ^ r_i))
            /\ r_i' = r_i + 1
            /\ r_pc' = "call"
       ELSE /\ r_pc' = "raise"
            /\ UNCHANGED <<r_i, r_sleeps>>
    /\ UNCHANGED <<r_retries, r_base_sleep, r_last_err, r_result, r_outcomes>>
    /\ UNCHANGED <<mapperVars, evalVars, matrixVars, hierVars, goldVars, loadVars, callVars, serverVars>>

\* time.sleep(base_sleep * (2 ** i)), then the next i of range(retries)
Sleep ==
    /\ r_pc = "sleep"
    /\ r_sleeps' = Append(r_sleeps, r_base_sleep * (2 ^ r_i))
    /\ IF r_i + 1 < r_retries
       THEN /\ r_i' = r_i + 1
            /\ r_pc' = "call"
       ELSE /\ r_pc' = "raise"
            /\ UNCHANGED r_i
    /\ UNCHANGED <<r_retries, r_base_sleep, r_last_err, r_result, r_outcomes>>
    /\ UNCHANGED <<mapperVars, evalVars, matrixVars, hierVars, goldVars, loadVars, callVars, serverVars>>

\* raise last_err
RaiseLast ==
    /\ r_pc = "raise"
    /\ r_result' = r_last_err
    /\ r_pc' = "raised"
    /\ UNCHANGED <<r_retries, r_base_sleep, r_i, r_last_err, r_outcomes, r_sleeps>>
    /\ UNCHANGED <<mapperVars, evalVars, matrixVars, hierVars, goldVars, loadVars, callVars, serverVars>>

NextRetry ==
    \/ \E outcome \in FnValues \cup FnErrors : CallFn(outcome)
    \/ Sleep
    \/ RaiseLast

SpecRetry == InitRetry /\ [][NextRetry]_vars

\* the code is sequential: a call of fn that ends and a sleep that ends are
\* followed by the next statement
SpecRetryLive == SpecRetry /\ WF_vars(NextRetry)

----------------------------------------------------------------------------
(* Claims on the mapper *)

ImplMapLevel(code, level) ==
    IF m_impl = "benchmark" THEN mapLevel(code, level) ELSE irr_mapLevel(code, level)

\* C1: in a well-formed store, for every Standard or Sub-standard code c,
\* mapLevel(c, "domain") is the id of c's Domain ancestor and
\* mapLevel(c, "cluster") is the id of c's Cluster ancestor.
C1_MapperAgreesWithParents ==
    ( /\ m_code \in DOMAIN m_store
      /\ m_store[m_code].level \in {"Standard", "Sub-standard"}
      /\ Len(m_trace) = 1 )
    => /\ m_trace[1] = "domain" => m_out = AncestorAt(m_store, m_code, "Domain")
       /\ m_trace[1] = "cluster" => m_out = AncestorAt(m_store, m_code, "Cluster")

\* C2: mapping at "standard" returns the code unchanged, and map_level over a
\* set of codes at "standard" returns exactly that set.
C2_StandardIsIdentity ==
    ( /\ Len(m_trace) >= 1
      /\ \A i \in 1..Len(m_trace) : m_trace[i] = "standard" )
    => /\ m_out = m_code
       /\ m_set_out = m_codes

C2_Witness ==
    /\ m_impl = "benchmark"
    /\ m_trace = <<"standard">>
    /\ m_code = c_4NFB3a
    /\ m_codes = {c_4NFB3a, c_4NFB3}
    /\ m_set_out = {c_4NFB3a, c_4NFB3}

\* C3: mapping to cluster and then to domain gives the same code as mapping
\* to domain directly, for every code string.
C3_ClusterThenDomain ==
    m_trace = <<"cluster", "domain">> => m_out = ImplMapLevel(m_code, "domain")

C3_Witness ==
    /\ m_trace = <<"cluster", "domain">>
    /\ m_code = c_4NFB3a
    /\ m_out = c_4NF

---------------------------------------------------------------------------
(* Claims on evaluate *)

RECURSIVE SumOf(_)
SumOf(f) ==
    IF DOMAIN f = {} THEN 0
    ELSE LET i == CHOOSE j \in DOMAIN f : TRUE
         IN  f[i] + SumOf([j \in DOMAIN f \ {i} |-> f[j]])

AllMetrics(v) ==
    /\ e_metrics.precision = v
    /\ e_metrics.recall = v
    /\ e_metrics.f1 = v
    /\ e_metrics.exact_match = v

SomeLabel(d) == \E i \in DOMAIN d : d[i] # {}

\* C4 as stated: for any non-empty preds, evaluate(preds, preds, level) has
\* precision = recall = f1 = exact_match = 1.0.
C4_SelfMatchAnyNonEmpty ==
    (e_pc = "done" /\ e_preds = e_gold /\ DOMAIN e_preds # {}) => AllMetrics(One)

\* C4 amended: evaluate(preds, preds, level) has precision = recall = f1 =
\* exact_match = 1.0 when some item of preds has a non-empty code set; when
\* preds is non-empty and every code set is empty, exact_match is 1.0 and
\* precision = recall = f1 = 0.0.
C4_SelfMatch ==
    (e_pc = "done" /\ e_preds = e_gold /\ DOMAIN e_preds # {})
    => IF SomeLabel(e_preds)
       THEN AllMetrics(One)
       ELSE /\ e_metrics.exact_match = One
            /\ e_metrics.precision = Zero
            /\ e_metrics.recall = Zero
            /\ e_metrics.f1 = Zero

C4_Witness ==
    /\ e_pc = "done"
    /\ e_preds = e_gold
    /\ DOMAIN e_gold = {1, 2}
    /\ e_gold[1] = {c_4NFB3, c_4NFB3a}
    /\ e_gold[2] = {}
    /\ e_level = "cluster"
    /\ AllMetrics(One)

\* C5: evaluate({}, gold, level) with non-empty gold returns without an
\* exception, with precision = recall = f1 = 0 and exact_match = (number of
\* gold items whose gold set is empty) / (number of gold items).
C5_EmptyPredictions ==
    (DOMAIN e_preds = {} /\ DOMAIN e_gold # {})
    => /\ e_pc # "raised"
       /\ e_pc = "done" =>
            /\ e_metrics.precision = Zero
            /\ e_metrics.recall = Zero
            /\ e_metrics.f1 = Zero
            /\ e_metrics.exact_match =
                   Frac(Cardinality({i \in DOMAIN e_gold : e_gold[i] = {}}),
                        Cardinality(DOMAIN e_gold))

C5_Witness ==
    /\ e_pc = "done"
    /\ DOMAIN e_preds = {}
    /\ DOMAIN e_gold = {1, 2}
    /\ e_gold[1] = {}
    /\ e_gold[2] # {}
    /\ e_metrics.exact_match = Frac(1, 2)

\* the only gold item carries one gold code and one predicted code, the two
\* differ and have the same cluster
OneItemSameCluster ==
    \E i \in Items : \E x, y \in ExampleCodes :
        /\ DOMAIN e_gold = {i}
        /\ i \in DOMAIN e_preds
        /\ e_preds[i] = {x}
        /\ e_gold[i] = {y}
        /\ x # y
        /\ mapLevel(x, "cluster") = mapLevel(y, "cluster")

\* C6: one predicted and one gold code that differ but share the cluster
\* count tp=0, fp=1, fn=1 at "standard" (precision = recall = 0) and
\* tp=1, fp=0, fn=0 at "cluster" (precision = recall = f1 = exact_match = 1.0).
C6_SameClusterExample ==
    (e_pc = "done" /\ OneItemSameCluster)
    => /\ e_level = "standard" =>
            /\ e_tp = 0 /\ e_fp = 1 /\ e_fn = 1
            /\ e_metrics.precision = Zero
            /\ e_metrics.recall = Zero
       /\ e_level = "cluster" =>
            /\ e_tp = 1 /\ e_fp = 0 /\ e_fn = 0
            /\ AllMetrics(One)

C6_Witness ==
    /\ e_pc = "done"
    /\ e_level = "cluster"
    /\ DOMAIN e_gold = {1}
    /\ e_gold[1] = {c_4NFB3a}
    /\ 1 \in DOMAIN e_preds
    /\ e_preds[1] = {c_4NFB3}
    /\ e_tp = 1
    /\ AllMetrics(One)

\* the mapped predicted set of a gold item: empty when preds has no entry
MappedPred(i) ==
    IF i \in DOMAIN e_preds THEN map_level(e_preds[i], e_level) ELSE {}

MappedGold(i) == map_level(e_gold[i], e_level)

\* C7: evaluate iterates exactly the item ids of gold: total is the number of
\* gold items, a gold item without a prediction is scored as an empty
\* prediction (its mapped gold codes are false negatives), and predictions
\* for ids outside gold add nothing to tp, fp, fn, exact or total.
C7_GoldIsTheUniverse ==
    e_pc = "done"
    => /\ e_metrics.total = Cardinality(DOMAIN e_gold)
       /\ e_total = Cardinality(DOMAIN e_gold)
       /\ e_tp = SumOf([i \in DOMAIN e_gold |->
                          Cardinality(MappedPred(i) \cap MappedGold(i))])
       /\ e_fp = SumOf([i \in DOMAIN e_gold |->
                          Cardinality(MappedPred(i) \ MappedGold(i))])
       /\ e_fn = SumOf([i \in DOMAIN e_gold |->
                          IF i \in DOMAIN e_preds
                          THEN Cardinality(MappedGold(i) \ MappedPred(i))
                          ELSE Cardinality(MappedGold(i))])
       /\ e_exact = Cardinality({i \in DOMAIN e_gold :
                                   MappedPred(i) = MappedGold(i)})

C7_Witness ==
    /\ e_pc = "done"
    /\ DOMAIN e_gold = {1}
    /\ DOMAIN e_preds = {2}
    /\ e_gold[1] = {c_4NFB3, c_4NFB3a}
    /\ e_preds[2] = {c_4NFB3}
    /\ e_level = "standard"
    /\ e_total = 1
    /\ e_fn = 2
    /\ e_fp = 0

\* C8: evaluate never raises on a zero denominator: each ratio whose
\* denominator is 0 is 0.0, and over an empty gold mapping total is 0 and
\* all four metrics are 0.0, whatever the predictions.
C8_ZeroDenominators ==
    /\ e_pc # "raised"
    /\ e_pc = "done" =>
         /\ e_tp + e_fp = 0 => e_metrics.precision = Zero
         /\ e_tp + e_fn = 0 => e_metrics.recall = Zero
         /\ (e_metrics.precision = Zero /\ e_metrics.recall = Zero)
                => e_metrics.f1 = Zero
         /\ e_total = 0 => e_metrics.exact_match = Zero
         /\ DOMAIN e_gold = {} => (e_metrics.total = 0 /\ AllMetrics(Zero))

C8_Witness ==
    /\ e_pc = "done"
    /\ DOMAIN e_gold = {}
    /\ DOMAIN e_preds = {1, 2}
    /\ e_preds[1] = {c_4NFB3}
    /\ e_metrics.total = 0
    /\ AllMetrics(Zero)

---------------------------------------------------------------------------
(* Claims on build_reliability_matrix *)

\* C9: for every annotator and every shared item on which the annotator's
\* record is skipped, every cell of the annotator's row in a column of that
\* item is NaN, whatever the skipped record lists and whatever the annotator
\* recorded on other items.
C9_SkippedIsMissing ==
    x_pc = "done"
    => \A r \in 1..Len(x_annotations) : \A k \in 1..Len(x_items) :
          LET pid == x_items[k][1]
          IN  (pid \in DOMAIN x_annotations[r] /\ x_annotations[r][pid].skipped)
              => x_matrix[r][k] = "nan"

C9_Witness ==
    /\ x_pc = "done"
    /\ x_level = "domain"
    /\ x_shared_ids = <<1, 2>>
    /\ Len(x_annotations) = 2
    /\ x_annotations[1] = (1 :> Record(TRUE, {c_4NFA1}) @@ 2 :> Record(FALSE, {c_4NFB3a}))
    /\ x_annotations[2] = (1 :> Record(FALSE, {c_4NFB3}))
    /\ x_items = <<(<<1, c_4NF>>), (<<2, c_4NF>>)>>
    /\ x_matrix = <<(<<"nan", "1.0">>), (<<"1.0", "nan">>)>>

---------------------------------------------------------------------------
(* Claims on load_standards_hierarchy *)

\* sort order of the grade literals
GradeSortKey == ("K" :> 0) @@ ("1" :> 1) @@ ("2" :> 2) @@ ("3" :> 3) @@ ("4" :> 4) @@ ("5" :> 5) @@ ("6" :> 6) @@ ("7" :> 7) @@ ("8" :> 8)

\* the leading dot segment of id is K or one of 1..8
LeadsWithGrade(id) ==
    /\ Len(id) >= 1
    /\ id[1] \in DOMAIN GradeSortKey
    /\ (Len(id) = 1 \/ id[2] = ".")

\* the nodes of a hierarchy, each named by its path
DomainNodes(h) ==
    UNION {{<<g, d>> : d \in DOMAIN h[g].domains} : g \in DOMAIN h}

ClusterNodes(h) ==
    UNION {{<<n[1], n[2], c>> : c \in DOMAIN h[n[1]].domains[n[2]].clusters} :
             n \in DomainNodes(h)}

StandardNodes(h) ==
    UNION {{<<n[1], n[2], n[3], t>> :
               t \in DOMAIN h[n[1]].domains[n[2]].clusters[n[3]].standards} :
             n \in ClusterNodes(h)}

SubStandardNodes(h) ==
    UNION {{<<n[1], n[2], n[3], n[4], u>> :
               u \in DOMAIN h[n[1]].domains[n[2]].clusters[n[3]].standards[n[4]].sub_standards} :
             n \in StandardNodes(h)}

ExampleStore == StoreOf({h_4NF, e_4NFB, e_4NFB3})

\* C10: a Domain whose leading dot segment is K or an integer 1-8 is put in
\* the bucket keyed by that segment, with sort_key 0 for K and the integer
\* otherwise; the store 4.NF -> 4.NF.B -> 4.NF.B.3 gives grade key "4",
\* sort key 4, one Domain, one Cluster, one Standard and no Sub-standard.
C10_GradeBuckets ==
    h_pc = "done"
    => /\ \A id \in DOMAIN h_entries :
             (h_entries[id].level = "Domain" /\ LeadsWithGrade(id))
             => /\ <<id[1]>> \in DOMAIN h_hierarchy
                /\ h_hierarchy[<<id[1]>>].sort_key = GradeSortKey[id[1]]
                /\ \A g \in DOMAIN h_hierarchy :
                      id \in DOMAIN h_hierarchy[g].domains <=> g = <<id[1]>>
       /\ h_entries = ExampleStore
             => /\ DOMAIN h_hierarchy = {<<"4">>}
                /\ h_hierarchy[<<"4">>].sort_key = 4
                /\ DomainNodes(h_hierarchy) = {<<(<<"4">>), c_4NF>>}
                /\ ClusterNodes(h_hierarchy) = {<<(<<"4">>), c_4NF, c_4NFB>>}
                /\ StandardNodes(h_hierarchy) = {<<(<<"4">>), c_4NF, c_4NFB, c_4NFB3>>}
                /\ SubStandardNodes(h_hierarchy) = {}

C10_Witness ==
    /\ h_pc = "done"
    /\ h_entries = ExampleStore
    /\ DOMAIN h_hierarchy = {<<"4">>}
    /\ h_hierarchy[<<"4">>].sort_key = 4
    /\ Cardinality(StandardNodes(h_hierarchy)) = 1

\* sub occurs in s as a contiguous run of characters
Contains(s, sub) ==
    \E i \in 0..(Len(s) - Len(sub)) : SubSeq(s, i + 1, i + Len(sub)) = sub

\* the subject of each High-School letter and its place in the CCSS order
SubjectName ==
    ("A" :> <<"A", "l", "g", "e", "b", "r", "a">>)
    @@ ("F" :> <<"F", "u", "n", "c", "t", "i", "o", "n", "s">>)
    @@ ("G" :> <<"G", "e", "o", "m", "e", "t", "r", "y">>)
    @@ ("N" :> <<"N", "u", "m", "b", "e", "r", " ", "&", " ", "Q", "u", "a", "n", "t", "i", "t", "y">>)
    @@ ("S" :> <<"S", "t", "a", "t", "i", "s", "t", "i", "c", "s", " ", "&", " ", "P", "r", "o", "b", "a", "b", "i", "l", "i", "t", "y">>)

SubjectOrdinal == ("N" :> 0) @@ ("A" :> 1) @@ ("F" :> 2) @@ ("G" :> 3) @@ ("S" :> 4)

\* the segment of id before "-" is one High-School subject letter
LeadsWithSubject(id) ==
    /\ Len(id) >= 1
    /\ id[1] \in DOMAIN SubjectOrdinal
    /\ (Len(id) = 1 \/ id[2] = "-")

\* C11: a Domain with no K/1-8 leading segment whose segment before "-" is
\* an HS subject letter L is put in the bucket keyed "HS-" + L, whose name
\* contains the subject name of L and whose sort_key is 100 + ordinal(L),
\* N=0, A=1, F=2, G=3, S=4 (A-APR: key HS-A, name with Algebra, sort key 101).
C11_SubjectBuckets ==
    h_pc = "done"
    => \A id \in DOMAIN h_entries :
          (h_entries[id].level = "Domain" /\ ~LeadsWithGrade(id) /\ LeadsWithSubject(id))
          => LET key == <<"H", "S", "-", id[1]>>
             IN  /\ key \in DOMAIN h_hierarchy
                 /\ Contains(h_hierarchy[key].name, SubjectName[id[1]])
                 /\ h_hierarchy[key].sort_key = 100 + SubjectOrdinal[id[1]]
                 /\ \A g \in DOMAIN h_hierarchy :
                       id \in DOMAIN h_hierarchy[g].domains <=> g = key

C11_Witness ==
    /\ h_pc = "done"
    /\ c_AAPR \in DOMAIN h_entries
    /\ c_NRN \in DOMAIN h_entries
    /\ <<"H", "S", "-", "A">> \in DOMAIN h_hierarchy
    /\ h_hierarchy[<<"H", "S", "-", "A">>].sort_key = 101
    /\ Contains(h_hierarchy[<<"H", "S", "-", "A">>].name, <<"A", "l", "g", "e", "b", "r", "a">>)
    /\ c_AAPR \in DOMAIN h_hierarchy[<<"H", "S", "-", "A">>].domains
    /\ h_hierarchy[<<"H", "S", "-", "N">>].sort_key = 100

\* C12: build_reliability_matrix called with an empty list of shared items
\* returns a matrix with no cell: no column, and one empty row for each
\* annotator, whatever the annotators recorded and whatever the level.
C12_NoSharedItems ==
    (x_pc = "done" /\ x_shared_ids = <<>>)
    => /\ x_items = <<>>
       /\ Len(x_matrix) = Len(x_annotations)
       /\ \A r \in 1..Len(x_matrix) : x_matrix[r] = <<>>

C12_Witness ==
    /\ x_pc = "done"
    /\ x_shared_ids = <<>>
    /\ Len(x_annotations) = 2
    /\ 2 \in DOMAIN x_annotations[1]
    /\ ~x_annotations[1][2].skipped
    /\ x_annotations[1][2].standards = {c_4NFB3a}
    /\ x_matrix = <<<<>>, <<>>>>

\* C13: build_gold_labels gives every problem an entry, and the entry is
\* exactly the set of the codes c for which the problem's relation list has a
\* pair [r, c] with r Addressing or Alignment; a pair of any other relation
\* adds no code, and a problem with no such pair gets the empty set.
C13_GoldLabels ==
    g_pc = "done"
    => /\ DOMAIN g_gold = DOMAIN g_problems
       /\ \A pid \in DOMAIN g_problems :
             LET l == IF "standards" \in DOMAIN g_problems[pid]
                      THEN g_problems[pid].standards ELSE <<>>
             IN  g_gold[pid] =
                    {c \in {c_4NFB3, c_4NFA1} :
                        \E i \in 1..Len(l) :
                           l[i][1] \in {"Addressing", "Alignment"} /\ l[i][2] = c}

C13_Witness ==
    /\ g_pc = "done"
    /\ DOMAIN g_problems = {1, 2}
    /\ "standards" \in DOMAIN g_problems[1]
    /\ g_problems[1].standards =
          <<<<"Alignment", c_4NFB3>>, <<"Building On", c_4NFA1>>>>
    /\ g_gold[1] = {c_4NFB3}
    /\ "standards" \in DOMAIN g_problems[2]
    /\ g_problems[2].standards = <<<<"Building On", c_4NFA1>>>>
    /\ g_gold[2] = {}

\* the numbers of the lines that are not JSON or that lack the "id" field
BadLines(lines) ==
    {n \in 1..Len(lines) :
        \/ lines[n].text = "garbage"
        \/ lines[n].text = "object" /\ "id" \notin DOMAIN lines[n].obj}

\* the numbers of the lines that hold an entry with an id
GoodLines(lines) ==
    {n \in 1..Len(lines) :
        lines[n].text = "object" /\ "id" \in DOMAIN lines[n].obj}

\* C14: no taxonomy loader aborts on a line that is malformed JSON or lacks
\* "id": the load ends by returning, each bad line is reported, and the
\* store holds exactly the entries of the well-formed lines.
C14_BadLinesSkipped ==
    /\ l_pc # "raised"
    /\ l_pc = "done"
       => /\ DOMAIN l_standards = {l_lines[n].obj.id : n \in GoodLines(l_lines)}
          /\ \A n \in GoodLines(l_lines) :
                l_standards[l_lines[n].obj.id] \in
                   {l_lines[k].obj : k \in GoodLines(l_lines)}
          /\ BadLines(l_lines) # {}
             => (l_loader = "annotation_helper"
                 => Range(l_warnings) = BadLines(l_lines))

\* the positions of the dots of a code
Dots(code) == {i \in 1..Len(code) : code[i] = "."}

\* the first k dot-separated segments of a code, dots included; the whole
\* code when it has at most k segments
FirstSegments(code, k) ==
    IF Cardinality(Dots(code)) < k THEN code
    ELSE LET p == CHOOSE i \in Dots(code) :
                     Cardinality({j \in Dots(code) : j < i}) = k - 1
         IN  SubSeq(code, 1, p - 1)

\* C15: for a code of n dot-separated segments standard_levels returns
\* domain = the first two segments joined by "." when n >= 2 and the code
\* otherwise, cluster = the first three segments when n >= 3 and the domain
\* otherwise, standard = the code; the taxonomy store plays no part.
C15_StandardLevels ==
    LET n == Cardinality(Dots(m_code)) + 1
        domain == IF n >= 2 THEN FirstSegments(m_code, 2) ELSE m_code
        cluster == IF n >= 3 THEN FirstSegments(m_code, 3) ELSE domain
        expected == [domain |-> domain, cluster |-> cluster, standard |-> m_code]
    IN  /\ m_impl = "benchmark" => standard_levels(m_code) = expected
        /\ m_impl = "irr" => irr_standard_levels(m_code) = expected
        /\ (Len(m_trace) = 1 /\ m_trace[1] \in {"domain", "cluster", "standard"})
           => m_out = expected[m_trace[1]]

C15_Witness ==
    /\ m_impl = "benchmark"
    /\ m_code = c_4NFB3a
    /\ m_trace = <<"cluster">>
    /\ m_out = c_4NFB
    /\ c_4NFB3a \notin DOMAIN m_store

\* the ancestor of a code at a level, read off the positions of its dots
AncestorByDots(code, level) ==
    IF level = "domain" THEN FirstSegments(code, 2)
    ELSE IF level = "cluster" THEN FirstSegments(code, 3)
    ELSE code

\* C16: map_level(codes, level) is exactly the set of the ancestors of the
\* codes at that level: codes with a common ancestor give one element, the
\* result is never larger than the set of codes, and what a mapped predicted
\* set adds to tp + fp is its size (1, not 2, for two standards of one cluster).
C16_MapLevelSet ==
    (Len(m_trace) = 1 /\ m_trace[1] \in {"domain", "cluster", "standard"})
    => /\ m_set_out = {AncestorByDots(c, m_trace[1]) : c \in m_codes}
       /\ Cardinality(m_set_out) <= Cardinality(m_codes)
       /\ \A gold \in {{}, {c_4NFB}, {c_4NFB3}} :
             ItemCounts(m_set_out, gold).tp + ItemCounts(m_set_out, gold).fp
                = Cardinality(m_set_out)
       /\ (m_codes = {c_4NFB3, c_4NFB3a} /\ m_trace[1] = "cluster")
          => /\ m_set_out = {c_4NFB}
             /\ ItemCounts(m_set_out, {c_4NFB}).tp = 1
             /\ ItemCounts(m_set_out, {c_4NFB}).fp = 0

C16_Witness ==
    /\ m_impl = "benchmark"
    /\ m_codes = {c_4NFB3, c_4NFB3a}
    /\ m_trace = <<"cluster">>
    /\ m_set_out = {c_4NFB}

\* the gold items the loop of evaluate has gone through
Processed == DOMAIN e_gold \ e_pending

\* C17: after any prefix of the gold items the accumulator holds
\* tp = sum |P_i /\ G_i|, fp = sum |P_i \ G_i|, fn = sum |G_i \ P_i| over the
\* processed items, P_i and G_i being the mapped predicted and gold sets; so
\* tp + fp = sum |P_i|, tp + fn = sum |G_i|, and each item is added once.
C17_AccumulatorSums ==
    e_pc = "loop"
    => /\ e_tp = SumOf([i \in Processed |->
                          Cardinality(MappedPred(i) \cap MappedGold(i))])
       /\ e_fp = SumOf([i \in Processed |->
                          Cardinality(MappedPred(i) \ MappedGold(i))])
       /\ e_fn = SumOf([i \in Processed |->
                          Cardinality(MappedGold(i) \ MappedPred(i))])
       /\ e_tp + e_fp = SumOf([i \in Processed |-> Cardinality(MappedPred(i))])
       /\ e_tp + e_fn = SumOf([i \in Processed |-> Cardinality(MappedGold(i))])
       /\ e_total = Cardinality(Processed)
       /\ e_pending \subseteq DOMAIN e_gold

C17_Witness ==
    /\ e_pc = "loop"
    /\ e_level = "standard"
    /\ e_pending = {}
    /\ DOMAIN e_gold = {1, 2}
    /\ DOMAIN e_preds = {1, 2}
    /\ e_gold[1] = {c_4NFB3, c_4NFB3a} /\ e_preds[1] = {c_4NFB3}
    /\ e_gold[2] = {c_4NFA1} /\ e_preds[2] = {c_4NFB3, c_4NFB3a}
    /\ e_tp = 1
    /\ e_fp = 2
    /\ e_fn = 2
    /\ e_total = 2

\* the predicted and the gold set of an item at the level of the run, each
\* code replaced by its ancestor read off its dots
PredAncestors(pid) ==
    IF pid \in DOMAIN e_preds
    THEN {AncestorByDots(c, e_level) : c \in e_preds[pid]}
    ELSE {}

GoldAncestors(pid) == {AncestorByDots(c, e_level) : c \in e_gold[pid]}

\* C18: the step of evaluate for an item adds 1 to exact if and only if the
\* item's mapped predicted set and mapped gold set are equal as sets, and
\* adds nothing otherwise; two empty sets are equal, so they count as exact.
C18_ExactIffSetEqual ==
    [][\A pid \in e_pending \ e_pending' :
          /\ e_exact' \in {e_exact, e_exact + 1}
          /\ e_exact' = e_exact + 1 <=> PredAncestors(pid) = GoldAncestors(pid)
          /\ (PredAncestors(pid) = {} /\ GoldAncestors(pid) = {})
             => e_exact' = e_exact + 1]_vars

C18_Witness ==
    /\ e_pc = "loop"
    /\ DOMAIN e_gold = {1, 2}
    /\ DOMAIN e_preds = {1, 2}
    /\ e_level = "cluster"
    /\ e_gold[1] = {} /\ e_preds[1] = {}
    /\ e_gold[2] = {c_4NFB3a} /\ e_preds[2] = {c_4NFB3, c_4NFB3a}
    /\ e_pending = {}
    /\ e_exact = 2

\* the entries of the store that the children list of p names
Listed(p) ==
    {c \in DOMAIN h_entries :
        \E i \in 1..Len(h_entries[p].children) : h_entries[p].children[i] = c}

\* the chains of store entries that start at a Domain and follow children lists
DomainChains == {<<d>> : d \in {e \in DOMAIN h_entries : h_entries[e].level = "Domain"}}

LongerChains(chains) ==
    UNION {{Append(n, c) : c \in Listed(n[Len(n)])} : n \in chains}

\* a node of the hierarchy without its grade bucket
Chain(n) == SubSeq(n, 2, Len(n))

\* C19: the hierarchy holds exactly the entries reached from the Domain
\* entries by following children lists, at most three steps down: an entry no
\* included parent lists is absent, a listed code missing from the store is
\* skipped while its siblings stay, and parent pointers play no part.
C19_ReachedByChildren ==
    h_pc = "done"
    => /\ {Chain(n) : n \in DomainNodes(h_hierarchy)} = DomainChains
       /\ {Chain(n) : n \in ClusterNodes(h_hierarchy)} = LongerChains(DomainChains)
       /\ {Chain(n) : n \in StandardNodes(h_hierarchy)}
             = LongerChains(LongerChains(DomainChains))
       /\ {Chain(n) : n \in SubStandardNodes(h_hierarchy)}
             = LongerChains(LongerChains(LongerChains(DomainChains)))

C19_Witness ==
    /\ h_pc = "done"
    /\ h_lines = <<h_4NF_two, e_4NFB, h_AAPRA, e_4NFB3a>>
    /\ ClusterNodes(h_hierarchy) = {<<(<<"4">>), c_4NF, c_4NFB>>}
    /\ StandardNodes(h_hierarchy) = {}
    /\ SubStandardNodes(h_hierarchy) = {}

\* the part of an id before its first "-", the whole id when it has none
BeforeDash(id) ==
    LET dashes == {i \in 1..Len(id) : id[i] = "-"}
    IN  IF dashes = {} THEN id
        ELSE SubSeq(id, 1, (CHOOSE i \in dashes : \A j \in dashes : i <= j) - 1)

\* a Domain of the store with neither a K/1-8 leading segment nor a subject letter
Unrecognised(id) ==
    /\ id \in DOMAIN h_entries
    /\ h_entries[id].level = "Domain"
    /\ ~LeadsWithGrade(id)
    /\ ~LeadsWithSubject(id)

\* C20 as stated: a Domain with neither a K/1-8 leading segment nor an HS
\* subject letter is put in a bucket whose key and whose display name are
\* both the raw prefix of its code.
C20_RawPrefixBucket ==
    h_pc = "done"
    => \A id \in DOMAIN h_entries :
          Unrecognised(id)
          => \E g \in DOMAIN h_hierarchy :
                /\ id \in DOMAIN h_hierarchy[g].domains
                /\ g = BeforeDash(id)
                /\ h_hierarchy[g].name = BeforeDash(id)

\* C20, amended: such a Domain is put, without an error, in the bucket keyed
\* "HS-" + prefix, named "HS: " + prefix, with sort_key 109, the prefix being
\* the part of the code before its first "-" (the whole code when it has none).
C20_FallbackBucket ==
    h_pc = "done"
    => \A id \in DOMAIN h_entries :
          Unrecognised(id)
          => LET key == <<"H", "S", "-">> \o BeforeDash(id)
             IN  /\ key \in DOMAIN h_hierarchy
                 /\ h_hierarchy[key].name = <<"H", "S", ":", " ">> \o BeforeDash(id)
                 /\ h_hierarchy[key].sort_key = 109
                 /\ \A g \in DOMAIN h_hierarchy :
                       id \in DOMAIN h_hierarchy[g].domains <=> g = key

C20_Witness ==
    /\ h_pc = "done"
    /\ Unrecognised(c_XY)
    /\ Unrecognised(c_9ZZ)
    /\ h_hierarchy[<<"H", "S", "-", "X">>].name = <<"H", "S", ":", " ", "X">>
    /\ h_hierarchy[<<"H", "S", "-", "X">>].sort_key = 109
    /\ c_9ZZ \in DOMAIN h_hierarchy[<<"H", "S", "-", "9", ".", "Z", "Z">>].domains

\* the codes the columns of the returned matrix are about
ColumnCodes == {x_items[k][2] : k \in 1..Len(x_items)}

\* the codes, mapped at the level of the call, of the records that exist, are
\* not skipped and belong to a shared item
SharedRecordCodes ==
    {AncestorByDots(c, x_level) :
        c \in UNION {x_annotations[r][x_shared_ids[i]].standards :
                        <<r, i>> \in {z \in (1..Len(x_annotations)) \X (1..Len(x_shared_ids)) :
                                        /\ x_shared_ids[z[2]] \in DOMAIN x_annotations[z[1]]
                                        /\ ~x_annotations[z[1]][x_shared_ids[z[2]]].skipped}}}

\* C21: the codes of the columns of build_reliability_matrix are exactly the
\* union, over all annotators and over the shared items only, of the mapped
\* codes of the records that exist and are not skipped; a code found only in
\* a skipped record or only on an item that is not shared makes no column.
C21_ColumnCodes ==
    x_pc = "done" => ColumnCodes = SharedRecordCodes

C21_Witness ==
    /\ x_pc = "done"
    /\ x_level = "standard"
    /\ x_shared_ids = <<1>>
    /\ Len(x_annotations) = 2
    /\ x_annotations[1] = (1 :> Record(TRUE, {c_4NFA1}) @@ 2 :> Record(FALSE, {c_4NFB3a}))
    /\ x_annotations[2] = (1 :> Record(FALSE, {c_4NFB3}))
    /\ x_items = <<(<<1, c_4NFB3>>)>>

\* s comes before t in lexicographic order: at the first position where they
\* differ s has ended or has the character of the smaller code point
LexBefore(s, t) ==
    \E i \in 1..Len(t) :
       /\ i <= Len(s) + 1
       /\ SubSeq(s, 1, i - 1) = SubSeq(t, 1, i - 1)
       /\ (i = Len(s) + 1 \/ CodePoint[s[i]] < CodePoint[t[i]])

\* the number of codes of the union that come before a code
RankInUnion(code) == Cardinality({c \in SharedRecordCodes : LexBefore(c, code)})

\* a list in the opposite order
Reversed(l) == [i \in 1..Len(l) |-> l[Len(l) + 1 - i]]

\* C22: the matrix has one row per annotator, in the annotators' order, each
\* of |shared ids| * |code union| cells; column i * |union| + j is about the
\* i-th shared item and the j-th code of the union in ascending
\* lexicographic order (i, j from 0), whatever the order of the annotators.
C22_ColumnLayout ==
    x_pc = "done"
    => LET u == Cardinality(SharedRecordCodes)
       IN  /\ Len(x_matrix) = Len(x_annotations)
           /\ Len(x_items) = Len(x_shared_ids) * u
           /\ \A r \in 1..Len(x_matrix) :
                 /\ Len(x_matrix[r]) = Len(x_shared_ids) * u
                 /\ \A k \in 1..Len(x_items) :
                       x_matrix[r][k] = "nan"
                          <=> Unusable(x_annotations[r], x_items[k][1])
           /\ \A i \in 0..(Len(x_shared_ids) - 1) : \A j \in 0..(u - 1) :
                 /\ x_items[i * u + j + 1][1] = x_shared_ids[i + 1]
                 /\ x_items[i * u + j + 1][2] \in SharedRecordCodes
                 /\ RankInUnion(x_items[i * u + j + 1][2]) = j
           /\ x_items = matrix_items(x_shared_ids,
                            sorted(all_standards(Reversed(x_annotations),
                                                 x_shared_ids, x_level)))

C22_Witness ==
    /\ x_pc = "done"
    /\ x_level = "standard"
    /\ x_shared_ids = <<2, 1>>
    /\ Len(x_annotations) = 2
    /\ x_annotations[1] = (2 :> Record(FALSE, {c_4NFB3a}))
    /\ x_annotations[2] = (1 :> Record(FALSE, {c_4NFB3}) @@ 2 :> Record(FALSE, {c_4NFB3, c_4NFB3a}))
    /\ x_items = <<(<<2, c_4NFB3>>), (<<2, c_4NFB3a>>), (<<1, c_4NFB3>>), (<<1, c_4NFB3a>>)>>
    /\ x_matrix = <<(<<"0.0", "1.0", "nan", "nan">>), (<<"1.0", "1.0", "1.0", "0.0">>)>>

\* the annotator has no record for the item, or a skipped one
NoUsableRecord(r, pid) ==
    pid \notin DOMAIN x_annotations[r] \/ x_annotations[r][pid].skipped

\* C23: the cell of annotator a in column (item, code) is the missing value
\* exactly when a has no record for the item or the record is skipped;
\* otherwise it is 1.0 when the record's codes mapped at the level contain
\* the code and 0.0 when they do not (0.0 in every column of the item for an
\* unskipped record without standards). An annotator with no unskipped record
\* on any shared item still has a row, all of missing values.
C23_CellValues ==
    x_pc = "done"
    => /\ Len(x_matrix) = Len(x_annotations)
       /\ \A r \in 1..Len(x_matrix) :
             /\ \A k \in 1..Len(x_items) :
                   LET pid == x_items[k][1]
                       code == x_items[k][2]
                   IN  /\ x_matrix[r][k] = "nan" <=> NoUsableRecord(r, pid)
                       /\ ~NoUsableRecord(r, pid)
                          => LET mapped == {AncestorByDots(c, x_level) :
                                              c \in x_annotations[r][pid].standards}
                             IN  /\ x_matrix[r][k] = "1.0" <=> code \in mapped
                                 /\ x_matrix[r][k] = "0.0" <=> code \notin mapped
                                 /\ x_annotations[r][pid].standards = {}
                                    => x_matrix[r][k] = "0.0"
             /\ (\A i \in 1..Len(x_shared_ids) : NoUsableRecord(r, x_shared_ids[i]))
                => /\ Len(x_matrix[r]) = Len(x_items)
                   /\ \A k \in 1..Len(x_items) : x_matrix[r][k] = "nan"

C23_Witness ==
    /\ x_pc = "done"
    /\ x_level = "standard"
    /\ x_shared_ids = <<1, 2>>
    /\ Len(x_annotations) = 2
    /\ x_annotations[1] = (1 :> Record(TRUE, {c_4NFA1}))
    /\ x_annotations[2] = (1 :> Record(FALSE, {}) @@ 2 :> Record(FALSE, {c_4NFB3a}))
    /\ x_items = <<(<<1, c_4NFB3a>>), (<<2, c_4NFB3a>>)>>
    /\ x_matrix = <<(<<"nan", "nan">>), (<<"0.0", "1.0">>)>>

\* the items of gold, each with its predicted and gold ancestors at the level
ItemPairs ==
    [i \in DOMAIN e_gold |-> [p |-> PredAncestors(i), g |-> GoldAncestors(i)]]

\* C24: the record evaluate returns is the same for every order of the gold
\* items, the call leaves preds and gold as they were, and a call repeated,
\* or made after calls at other levels, returns what a single call returns.
C24_PureAndRepeatable ==
    /\ e_preds = c_preds0
    /\ e_gold = c_gold0
    /\ e_pc = "done"
       => /\ e_tp = SumOf([i \in DOMAIN e_gold |->
                             Cardinality(ItemPairs[i].p \cap ItemPairs[i].g)])
          /\ e_fp = SumOf([i \in DOMAIN e_gold |->
                             Cardinality(ItemPairs[i].p \ ItemPairs[i].g)])
          /\ e_fn = SumOf([i \in DOMAIN e_gold |->
                             Cardinality(ItemPairs[i].g \ ItemPairs[i].p)])
          /\ e_exact = Cardinality({i \in DOMAIN e_gold :
                                       ItemPairs[i].p = ItemPairs[i].g})
          /\ e_metrics.total = Cardinality(DOMAIN e_gold)
          /\ e_level \in DOMAIN c_results
             => e_metrics = c_results[e_level]

C24_Witness ==
    /\ e_pc = "done"
    /\ c_calls = 3
    /\ e_level = "cluster"
    /\ DOMAIN e_gold = {1, 2}
    /\ DOMAIN e_preds = {1, 2}
    /\ e_preds[1] = {c_4NFB3} /\ e_preds[2] = {c_4NFA1}
    /\ DOMAIN c_results = {"cluster", "domain"}
    /\ c_results["domain"].precision = Frac(1, 1)
    /\ c_order = <<2, 1>>
    /\ e_metrics = c_results["cluster"]
    /\ e_metrics.precision = Frac(1, 2)

\* one call of the mapper of either module, seen from outside: the level
\* passed is the last of the trace, the input is the output of the call before
MapperCall ==
    LET level == m_trace'[Len(m_trace')]
        named == level \in {"standard", "cluster", "domain"}
    IN  /\ m_out' = mapLevel(m_out, level)
        /\ m_out' = irr_mapLevel(m_out, level)
        /\ m_set_out' = map_level(m_set_out, level)
        /\ m_set_out' = irr_map_level(m_set_out, level)
        /\ standard_levels(m_out) = irr_standard_levels(m_out)
        /\ ~named => /\ m_out' = m_out
                      /\ m_set_out' = m_set_out

\* C25: the mapper of benchmark.py and the mapper of irr.py are one function:
\* for every code and every level string, a level string other than
\* 'standard', 'cluster', 'domain' included (both read it as 'standard'),
\* standard_levels and map_level of the two modules return the same.
C25_OneMapper == [][MapperCall]_vars

C25_Witness ==
    /\ m_impl = "irr"
    /\ m_code = c_4NFB3a
    /\ m_codes = {c_4NFB3a, c_4NFA1}
    /\ m_trace = <<"cluster", "other">>
    /\ m_out = c_4NFB
    /\ m_set_out = {c_4NFB, c_4NFA}

\* the records evaluate has returned so far, by level
Returned ==
    [l \in DOMAIN c_results \cup {e_level} |->
        IF l = e_level THEN e_metrics ELSE c_results[l]]

\* a <= b for fractions of positive denominator
FracLeq(a, b) == a.num * b.den <= b.num * a.den

\* the pairs of a level and a coarser one
Coarsenings ==
    {<<"standard", "cluster">>, <<"cluster", "domain">>, <<"standard", "domain">>}

\* C26: exact match is monotone under coarsening: a predicted and a gold set
\* equal when mapped at 'standard' are equal at 'cluster', and equal at
\* 'cluster' are equal at 'domain'; so for the same inputs the exact count of
\* evaluate at standard <= at cluster <= at domain, with the same total.
C26_ExactMonotone ==
    /\ \A i \in DOMAIN e_gold :
          LET P == PredLabels(e_preds, i)
              G == e_gold[i]
          IN  /\ map_level(P, "standard") = map_level(G, "standard")
                 => map_level(P, "cluster") = map_level(G, "cluster")
              /\ map_level(P, "cluster") = map_level(G, "cluster")
                 => map_level(P, "domain") = map_level(G, "domain")
    /\ e_pc = "done"
       => \A pair \in Coarsenings :
             (pair[1] \in DOMAIN Returned /\ pair[2] \in DOMAIN Returned)
             => /\ Returned[pair[1]].total = Returned[pair[2]].total
                /\ FracLeq(Returned[pair[1]].exact_match,
                           Returned[pair[2]].exact_match)

C26_Witness ==
    /\ e_pc = "done"
    /\ e_level = "domain"
    /\ DOMAIN c_results = {"standard", "cluster"}
    /\ DOMAIN e_gold = {1, 2}
    /\ DOMAIN e_preds = {1, 2}
    /\ e_preds[1] = {c_4NFB3} /\ e_preds[2] = {c_4NFA1}
    /\ c_results["standard"].exact_match = Frac(0, 2)
    /\ c_results["cluster"].exact_match = Frac(1, 2)
    /\ e_metrics.exact_match = Frac(2, 2)
    /\ e_metrics.total = 2

\* the POSTs whose body has the keys the handler reads
Handled ==
    {i \in 1..Len(s_posted) :
        "problem_id" \in DOMAIN s_posted[i] /\ "standards" \in DOMAIN s_posted[i]}

PostedIds == {s_posted[i].problem_id : i \in Handled}

\* the latest handled POST for a problem id
LastPost(pid) ==
    CHOOSE i \in Handled :
        /\ s_posted[i].problem_id = pid
        /\ \A j \in Handled : s_posted[j].problem_id = pid => j <= i

\* the record a body stands for
PostedRecord(body) ==
    [problem_id |-> body.problem_id,
     annotator |-> annotator_name,
     standards |-> body.standards,
     notes |-> IF "notes" \in DOMAIN body THEN body.notes ELSE "",
     skipped |-> IF "skipped" \in DOMAIN body THEN body.skipped ELSE FALSE]

\* C27: after any sequence of POSTs saved_annotations holds one record per
\* posted problem id, the one of the last POST for it; the 'saved' count of
\* the response is the number of distinct ids; and reading the append-only
\* file back, at a restart of the server or in irr.load_annotations, gives
\* that same map.
C27_LastWriteWinsAndReplay ==
    /\ DOMAIN s_saved = PostedIds
    /\ \A pid \in PostedIds : s_saved[pid] = PostedRecord(s_posted[LastPost(pid)])
    /\ Len(s_posted) \in Handled
       => s_reply = [status |-> "200", saved |-> Cardinality(PostedIds)]
    /\ main_replay(s_file) = [ok |-> TRUE, saved |-> s_saved]
    /\ load_annotations(s_file) = [ok |-> TRUE, saved |-> s_saved]
    /\ (s_loaded.done /\ s_loaded.at = Len(s_posted))
       => s_loaded.annotations = s_saved
    /\ s_pc \in {"serving", "stopped"}

C27_Witness ==
    /\ s_pc = "serving"
    /\ Len(s_posted) = 3
    /\ s_posted[1] = [problem_id |-> "p1", standards |-> <<"4.NF.B.3">>]
    /\ s_posted[2] = [problem_id |-> "p2", standards |-> <<"4.NF.A.1">>]
    /\ s_posted[3] = [problem_id |-> "p1", standards |-> <<>>, skipped |-> TRUE]
    /\ s_done = 2
    /\ s_reply = [status |-> "200", saved |-> 2]
    /\ s_saved["p1"].skipped
    /\ s_saved["p1"].standards = <<>>
    /\ s_saved["p2"].standards = <<"4.NF.A.1">>
    /\ s_loaded.done
    /\ s_loaded.at = 3
    /\ DOMAIN s_loaded.annotations = {"p1", "p2"}

\* the calls of fn that raised
FailedCalls == {k \in 1..Len(r_outcomes) : r_outcomes[k] \in FnErrors}

RetrySafe ==
    /\ Len(r_outcomes) <= r_retries
    /\ \A k \in 1..(Len(r_outcomes) - 1) : r_outcomes[k] \in FnErrors
    /\ r_pc = "returned"
       => /\ r_outcomes[Len(r_outcomes)] \in FnValues
          /\ r_result = r_outcomes[Len(r_outcomes)]
    /\ r_pc = "raised"
       => /\ Len(r_outcomes) = r_retries
          /\ FailedCalls = 1..r_retries
          /\ r_result = r_outcomes[r_retries]
          /\ Len(r_sleeps) = r_retries
    /\ r_pc = "sleep" => Len(r_sleeps) = Cardinality(FailedCalls) - 1
    /\ r_pc # "sleep" => Len(r_sleeps) = Cardinality(FailedCalls)
    /\ \A k \in 1..Len(r_sleeps) : r_sleeps[k] = r_base_sleep * (2 ^ (k - 1))

\* C28: request_with_retries(fn, retries = n), n >= 1, always ends, after at
\* most n calls of fn: it returns the value of the first call that succeeds
\* and calls fn no more, and when all n calls raise it raises the exception
\* of the n-th; a backoff sleep follows every failed call, the last included.
C28_RetriesTerminate ==
    /\ []RetrySafe
    /\ <>(r_pc \in {"returned", "raised"})

C28_Witness ==
    /\ r_pc = "raised"
    /\ r_retries = 3
    /\ r_base_sleep = 3
    /\ r_outcomes = <<"E1", "E1", "E2">>
    /\ r_result = "E2"
    /\ r_sleeps = <<3, 6, 12>>

===========================================================================
